---- MODULE Spec2Model ----
(***************************************************************************)
(* Akita eMail for Meshtastic: the relay plugin (akita_email/plugin.py),   *)
(* its SQLite message store (akita_email/database.py), the Email record    *)
(* (akita_email/models.py) and the mesh wire frames                        *)
(* (akita_email/protocol.py), as a state machine.                          *)
(*                                                                         *)
(* Every node of Nodes holds its own store (inbox, outbox) and runs, while *)
(* its plugin is running, the transport's receive callback and the         *)
(* outgoing queue processor thread.  The queue processor is split at the   *)
(* points where the receive callback can run between two of its store      *)
(* operations: after the SELECT of get_emails_to_send, after the scan, and *)
(* after interface.sendText returned and before                            *)
(* update_outbox_after_send_attempt.                                       *)
(***************************************************************************)
EXTENDS Integers, Sequences, FiniteSets, TLC

VARIABLES
    now,        \* time.time(), seconds
    ticks,      \* how many times the clock has advanced
    running,    \* running[n]: AkitaEmailPlugin.running of node n
    inbox,      \* inbox[n]: rows of table inbox of node n
    outbox,     \* outbox[n]: rows of table outbox of node n
    pc,         \* pc[n]: position of node n's queue processor thread
    scanNow,    \* scanNow[n]: local `now` of the current get_emails_to_send
    snapshot,   \* snapshot[n]: read_cursor.fetchall() of the current scan
    batch,      \* batch[n]: emails_to_process not yet handled
    net,        \* packets accepted by the transport and still in flight
    tx,         \* the frame handed to interface.sendText by this step
    res,        \* outcome of the store/transport operation of this step
    companion_open, \* companion_open[n]: companion_serial of n is open
    out,        \* the frames written to the companion line by this step
    stopping,   \* stopping[n]: position of stop() of node n
    listener,   \* listener[n]: state of n's companion listener thread
    db,         \* db[n]: self.db of n is set and its connection open
    call,       \* the keyword arguments of this step's interface.sendText
    extra,      \* extra[n]: live queue processor threads of n besides pc[n]'s
    port        \* port[n]: bytes on n's companion line and writes under way

vars == <<now, ticks, running, inbox, outbox, pc, scanNow, snapshot, batch,
          net, tx, res, companion_open, out, stopping, listener, db, call,
          extra, port>>

----------------------------------------------------------------------------
(* Bounds of the model *)

MaxTicks == 2
MaxInFlight == 1
MaxWritten == 4
MaxExtra == 2

----------------------------------------------------------------------------
(* akita_email/config.py *)

MESSAGE_HOP_LIMIT == 7
MESSAGE_RETRY_INTERVAL == 60 * 5
MESSAGE_EXPIRY_TIME == 3600 * 6
MSG_TYPE_EMAIL == "eml"
MSG_TYPE_ACK == "ack"

(* akita_email/models.py *)

STATUS_PENDING == "pending"
STATUS_SENT == "sent"
STATUS_ACKED == "acked"
STATUS_FAILED == "failed"
None == -1

----------------------------------------------------------------------------
(* Node ids, message ids and the inputs of the model *)

NodeA == 16
NodeB == 32
NodeC == 48
Nodes == {NodeA, NodeB}
NodeIds == {NodeA, NodeB, NodeC}
\* uuid.uuid4() of a node: the ids it gives to the emails it originates
Uuids(n) == IF n = NodeA THEN {"m1"} ELSE {"m2"}
MsgIds == UNION {Uuids(n) : n \in Nodes}
HopsIn == {0, MESSAGE_HOP_LIMIT - 1, MESSAGE_HOP_LIMIT}
TickSteps == {MESSAGE_RETRY_INTERVAL, MESSAGE_EXPIRY_TIME}
StartTime == MESSAGE_EXPIRY_TIME + MESSAGE_RETRY_INTERVAL
OldTime == StartTime - MESSAGE_EXPIRY_TIME - 1
NoFrame == [t |-> "none"]

\* interface.sendText(text, destinationId, channelIndex, hopLimit): the
\* destination and the hop limit of a call, hopLimit None when not passed
sendText(destinationId, hopLimit) ==
    [destinationId |-> destinationId, hopLimit |-> hopLimit]

\* no call of interface.sendText in this step
NoCall == [made |-> FALSE]

\* the companion line with nothing written and no write under way
PortIdle == [written |-> <<>>, receipt |-> <<>>, command |-> <<>>]

----------------------------------------------------------------------------
(* models.Email: the constructor with its defaults.  time.time() is read   *)
(* for timestamp (when not given) and for created_time.                    *)

Email(message_id, to_node_id, from_node_id, subject, body, timestamp, hops, t) ==
    [message_id |-> message_id, to_node_id |-> to_node_id,
     from_node_id |-> from_node_id, subject |-> subject, body |-> body,
     timestamp |-> timestamp, hops |-> hops,
     status |-> STATUS_PENDING, last_attempt_time |-> 0, retry_count |-> 0,
     created_time |-> t, acked_by_node_id |-> None]

----------------------------------------------------------------------------
(* akita_email/database.py.  A table is the set of its rows.               *)

HasRow(tbl, message_id) == \E r \in tbl : r.message_id = message_id

Row(tbl, message_id) == CHOOSE r \in tbl : r.message_id = message_id

\* faulty variant: INSERT OR REPLACE
InsertOrIgnore_Replace(tbl, row) ==
    {r \in tbl : r.message_id # row.message_id} \cup {row}

\* INSERT OR IGNORE on a table whose PRIMARY KEY is message_id
InsertOrIgnore(tbl, row) ==
    IF HasRow(tbl, row.message_id) THEN tbl ELSE tbl \cup {row}

\* cursor.rowcount > 0 of that statement
RowCount(tbl, row) == IF HasRow(tbl, row.message_id) THEN 0 ELSE 1

InboxRow(email) ==
    [message_id |-> email.message_id, to_node_id |-> email.to_node_id,
     from_node_id |-> email.from_node_id, subject |-> email.subject,
     body |-> email.body, timestamp |-> email.timestamp, hops |-> email.hops]

\* faulty variant: the timestamp column bound to email.created_time
OutboxRow_TimestampFromCreated(email) ==
    [message_id |-> email.message_id, to_node_id |-> email.to_node_id,
     from_node_id |-> email.from_node_id, subject |-> email.subject,
     body |-> email.body, timestamp |-> email.created_time,
     hops |-> email.hops,
     status |-> STATUS_PENDING, last_attempt_time |-> 0, retry_count |-> 0,
     created_time |-> email.created_time, acked_by_node_id |-> None]

OutboxRow(email) ==
    [message_id |-> email.message_id, to_node_id |-> email.to_node_id,
     from_node_id |-> email.from_node_id, subject |-> email.subject,
     body |-> email.body, timestamp |-> email.timestamp, hops |-> email.hops,
     status |-> STATUS_PENDING, last_attempt_time |-> 0, retry_count |-> 0,
     created_time |-> email.created_time, acked_by_node_id |-> None]

add_incoming_email(tbl, email) == InsertOrIgnore(tbl, InboxRow(email))

add_outgoing_email(tbl, email) == InsertOrIgnore(tbl, OutboxRow(email))

\* faulty variant: the retry cutoff left out of the WHERE clause
IsDue_NoRetryGate(row, t) == row.status \in {STATUS_PENDING, STATUS_SENT}

\* WHERE status = pending OR (status = sent AND last_attempt_time < retry_cutoff)
IsDue(row, t) ==
    \/ row.status = STATUS_PENDING
    \/ /\ row.status = STATUS_SENT
       /\ row.last_attempt_time < t - MESSAGE_RETRY_INTERVAL

\* faulty variant: expiry measured from the origination timestamp
IsExpired_ByTimestamp(row, t) == row.timestamp < t - MESSAGE_EXPIRY_TIME

\* row['created_time'] < expiry_cutoff
\* faulty variant: no row ever counts as expired
IsExpired_Never(row, t) == FALSE

\* row['created_time'] < expiry_cutoff
IsExpired(row, t) == row.created_time < t - MESSAGE_EXPIRY_TIME

\* ORDER BY created_time ASC: rows of equal created_time come in any order
IsSortedByCreated(s) ==
    \A i, j \in 1..Len(s) : i < j => s[i].created_time <= s[j].created_time

RECURSIVE SeqsOf(_)
SeqsOf(S) ==
    IF S = {} THEN {<<>>}
    ELSE UNION {{<<r>> \o s : s \in SeqsOf(S \ {r})} : r \in S}

\* faulty variant: the SELECT has no ORDER BY
SelectDue_Unordered(tbl, t) == SeqsOf({r \in tbl : IsDue(r, t)})

\* SELECT * FROM outbox WHERE ... ORDER BY created_time ASC
SelectDue(tbl, t) ==
    {s \in SeqsOf({r \in tbl : IsDue(r, t)}) : IsSortedByCreated(s)}

\* faulty variant: the failure is counted as a send attempt
mark_outbox_failed_CountsAttempt(tbl, message_id, t) ==
    {IF r.message_id = message_id
        THEN [r EXCEPT !.status = STATUS_FAILED, !.last_attempt_time = t,
                       !.retry_count = r.retry_count + 1]
        ELSE r : r \in tbl}

\* faulty variant: the row is deleted
mark_outbox_failed_Delete(tbl, message_id, t) ==
    {r \in tbl : r.message_id # message_id}

\* UPDATE outbox SET status = failed, last_attempt_time = now WHERE message_id = ?
mark_outbox_failed(tbl, message_id, t) ==
    {IF r.message_id = message_id
        THEN [r EXCEPT !.status = STATUS_FAILED, !.last_attempt_time = t]
        ELSE r : r \in tbl}

\* faulty variant: only pending rows are expired
RECURSIVE ExpireRows_PendingOnly(_, _, _)
ExpireRows_PendingOnly(tbl, rows, t) ==
    IF rows = <<>> THEN tbl
    ELSE ExpireRows_PendingOnly(
             IF IsExpired(Head(rows), t) /\ Head(rows).status = STATUS_PENDING
                THEN mark_outbox_failed(tbl, Head(rows).message_id, t)
                ELSE tbl,
             Tail(rows), t)

\* the loop of get_emails_to_send over the fetched rows: expired rows
RECURSIVE ExpireRows(_, _, _)
ExpireRows(tbl, rows, t) ==
    IF rows = <<>> THEN tbl
    ELSE ExpireRows(IF IsExpired(Head(rows), t)
                       THEN mark_outbox_failed(tbl, Head(rows).message_id, t)
                       ELSE tbl,
                    Tail(rows), t)

\* faulty variant: the `continue` after an expired row left out
EmailsToSend_NoSkip(rows, t) == rows

\* the loop of get_emails_to_send over the fetched rows: emails_to_send
RECURSIVE EmailsToSend(_, _)
EmailsToSend(rows, t) ==
    IF rows = <<>> THEN <<>>
    ELSE IF IsExpired(Head(rows), t) THEN EmailsToSend(Tail(rows), t)
         ELSE <<Head(rows)>> \o EmailsToSend(Tail(rows), t)

\* faulty variant: status and time written, retry_count not yet
update_outbox_after_send_attempt_StatusOnly(tbl, message_id, t) ==
    {IF r.message_id = message_id
        THEN [r EXCEPT !.status = STATUS_SENT, !.last_attempt_time = t]
        ELSE r : r \in tbl}

\* faulty variant: a row is written for an id the table does not hold
update_outbox_after_send_attempt_Upsert(tbl, message_id, t) ==
    IF HasRow(tbl, message_id)
    THEN {IF r.message_id = message_id
             THEN [r EXCEPT !.status = STATUS_SENT, !.last_attempt_time = t,
                            !.retry_count = r.retry_count + 1]
             ELSE r : r \in tbl}
    ELSE tbl \cup {[OutboxRow(Email(message_id, None, None, "", "", t, 0, t))
                       EXCEPT !.status = STATUS_SENT,
                              !.last_attempt_time = t, !.retry_count = 1]}

\* UPDATE outbox SET status, last_attempt_time, retry_count = retry_count + 1
\* WHERE message_id = ?: one statement, applied as a whole
update_outbox_after_send_attempt(tbl, message_id, t) ==
    {IF r.message_id = message_id
        THEN [r EXCEPT !.status = STATUS_SENT, !.last_attempt_time = t,
                       !.retry_count = r.retry_count + 1]
        ELSE r : r \in tbl}

\* faulty variant: the UPDATE has no WHERE clause
mark_outbox_acked_NoWhere(tbl, message_id, acked_by, t) ==
    {[r EXCEPT !.status = STATUS_ACKED, !.last_attempt_time = t,
               !.acked_by_node_id = acked_by] : r \in tbl}

mark_outbox_acked(tbl, message_id, acked_by, t) ==
    {IF r.message_id = message_id
        THEN [r EXCEPT !.status = STATUS_ACKED, !.last_attempt_time = t,
                       !.acked_by_node_id = acked_by]
        ELSE r : r \in tbl}

----------------------------------------------------------------------------
(* akita_email/protocol.py: the mesh frames *)

\* faulty variant: the values of the timestamp and hops keys exchanged
encode_email_to_lora_FieldsSwapped(email) ==
    [t |-> MSG_TYPE_EMAIL, i |-> email.message_id, to |-> email.to_node_id,
     fm |-> email.from_node_id, s |-> email.subject, b |-> email.body,
     ts |-> email.hops, hp |-> email.timestamp]

encode_email_to_lora(email) ==
    [t |-> MSG_TYPE_EMAIL, i |-> email.message_id, to |-> email.to_node_id,
     fm |-> email.from_node_id, s |-> email.subject, b |-> email.body,
     ts |-> email.timestamp, hp |-> email.hops]

\* faulty variant: destination and source of the ack exchanged
encode_ack_to_lora_Swapped(ack_for_id, to_node_id, from_node_id, t) ==
    [t |-> MSG_TYPE_ACK, i |-> "ack_" \o ack_for_id, af |-> ack_for_id,
     to |-> from_node_id, fm |-> to_node_id, ts |-> t, hp |-> 0]

encode_ack_to_lora(ack_for_id, to_node_id, from_node_id, t) ==
    [t |-> MSG_TYPE_ACK, i |-> "ack_" \o ack_for_id, af |-> ack_for_id,
     to |-> to_node_id, fm |-> from_node_id, ts |-> t, hp |-> 0]

\* a packet of the transport: the immediate sender and the text payload
Packet(from, frame) == [from |-> from, text |-> frame]

----------------------------------------------------------------------------
(* The transport: interface.sendText either raises MeshInterfaceError or   *)
(* accepts the packet.  An accepted packet may be lost on the air; it stays *)
(* in flight only while a node other than its sender has a receive handler *)
(* registered (start() registers it).                                      *)

Accepted(flight, pkt) ==
    IF /\ Cardinality(flight) < MaxInFlight
       /\ \E m \in Nodes \ {pkt.from} : running[m]
    THEN {flight, flight \cup {pkt}}
    ELSE {flight}

----------------------------------------------------------------------------
(* Frames the rest of the mesh can put on the air at time t: emails that   *)
(* NodeB originated at OldTime, for NodeA or for NodeC, and acks.          *)

EnvFrames(t) ==
    {[t |-> MSG_TYPE_EMAIL, i |-> i, to |-> NodeA, fm |-> NodeB, s |-> "",
      b |-> "hi", ts |-> OldTime, hp |-> 1] : i \in Uuids(NodeB)}
    \cup
    {[t |-> MSG_TYPE_EMAIL, i |-> i, to |-> NodeC, fm |-> NodeB, s |-> "",
      b |-> "hi", ts |-> OldTime, hp |-> hp] :
        i \in Uuids(NodeB), hp \in HopsIn}
    \cup
    {[t |-> MSG_TYPE_ACK, i |-> "ack_" \o af, af |-> af, to |-> to,
      fm |-> fm, ts |-> t, hp |-> 0] :
        af \in MsgIds, to \in {NodeA, NodeC}, fm \in {NodeB}}

\* config.py: companion commands and responses
CMD_SEND_EMAIL == "send_email"
CMD_READ_EMAILS == "read_emails"
CMD_SET_ALIAS == "set_alias"
CMD_GET_STATUS == "get_status"
CMD_PING_PLUGIN == "ping"
RESP_INBOX_LIST == "inbox_list"
RESP_STATUS_UPDATE == "status_update"
RESP_NEW_EMAIL_NOTIFY == "new_email_notify"
RESP_PONG == "pong"
RESP_ERROR == "error_response"

\* protocol.encode_companion_response: one frame {"resp": ..., "data": ...}
encode_companion_response(response_type, data) ==
    [resp |-> response_type, data |-> data]

\* _send_to_companion: the line is written if the serial port is open
_send_to_companion(n, message_payload) ==
    IF companion_open[n] THEN <<message_payload>> ELSE <<>>

\* uuid.uuid4() gives an id the node has not given before
Fresh(n, message_id) ==
    /\ message_id \in Uuids(n)
    /\ ~HasRow(outbox[n], message_id)

----------------------------------------------------------------------------
(* plugin.py: the receive path *)

\* faulty variant: the received hop count compared, not the incremented one
HopLimitExceeded_NoIncrement(hops) == hops > MESSAGE_HOP_LIMIT

\* new_hops > config.MESSAGE_HOP_LIMIT, with new_hops = hops + 1
HopLimitExceeded(hops) == hops + 1 > MESSAGE_HOP_LIMIT

\* faulty variant: the companion is notified of every receipt
NewMailNotification_Always(n, email, was_new) ==
    _send_to_companion(n,
        encode_companion_response(
            RESP_NEW_EMAIL_NOTIFY,
            [message_id |-> email.message_id,
             from_node_id |-> email.from_node_id,
             subject |-> email.subject]))

\* if was_new: the new_email_notify frame is sent to the companion
NewMailNotification(n, email, was_new) ==
    IF was_new
    THEN _send_to_companion(n,
             encode_companion_response(
                 RESP_NEW_EMAIL_NOTIFY,
                 [message_id |-> email.message_id,
                  from_node_id |-> email.from_node_id,
                  subject |-> email.subject]))
    ELSE <<>>

\* faulty variant: the ack is sent only for a newly stored email
HandleEmail_AckIfNew(n, f, flight) ==
    IF f.to = n
    THEN LET email == Email(f.i, f.to, f.fm, f.s, f.b, f.ts, f.hp, now)
             ack == encode_ack_to_lora(f.i, f.fm, n, now)
         IN /\ inbox' = [inbox EXCEPT ![n] = add_incoming_email(@, email)]
            /\ res' = IF RowCount(inbox[n], email) > 0 THEN "inserted"
                      ELSE "duplicate"
            /\ IF RowCount(inbox[n], email) > 0
               THEN /\ tx' = ack
                    /\ call' = sendText(f.fm, None)
                    /\ net' \in Accepted(flight, Packet(n, ack))
               ELSE /\ tx' = NoFrame
                    /\ call' = NoCall
                    /\ net' = flight
            /\ out' = NewMailNotification(
                          n, email, RowCount(inbox[n], email) > 0)
            /\ UNCHANGED outbox
    ELSE IF HopLimitExceeded(f.hp)
    THEN /\ res' = "dropped"
         /\ tx' = NoFrame
         /\ call' = NoCall
         /\ net' = flight
         /\ out' = <<>>
         /\ UNCHANGED <<inbox, outbox>>
    ELSE LET email_to_forward ==
                 Email(f.i, f.to, f.fm, f.s, f.b, f.ts, f.hp + 1, now)
         IN /\ outbox' = [outbox EXCEPT
                             ![n] = add_outgoing_email(@, email_to_forward)]
            /\ res' = IF RowCount(outbox[n], email_to_forward) > 0
                      THEN "inserted" ELSE "duplicate"
            /\ tx' = NoFrame
            /\ call' = NoCall
            /\ net' = flight
            /\ out' = <<>>
            /\ UNCHANGED inbox

\* _handle_received_email_packet
HandleEmail(n, f, flight) ==
    IF f.to = n
    THEN LET email == Email(f.i, f.to, f.fm, f.s, f.b, f.ts, f.hp, now)
             ack == encode_ack_to_lora(f.i, f.fm, n, now)
         IN /\ inbox' = [inbox EXCEPT ![n] = add_incoming_email(@, email)]
            /\ res' = IF RowCount(inbox[n], email) > 0 THEN "inserted"
                      ELSE "duplicate"
            /\ tx' = ack
            /\ call' = sendText(f.fm, None)
            /\ net' \in Accepted(flight, Packet(n, ack))
            /\ out' = NewMailNotification(
                          n, email, RowCount(inbox[n], email) > 0)
            /\ UNCHANGED outbox
    ELSE IF HopLimitExceeded(f.hp)
    THEN /\ res' = "dropped"
         /\ tx' = NoFrame
         /\ call' = NoCall
         /\ net' = flight
         /\ out' = <<>>
         /\ UNCHANGED <<inbox, outbox>>
    ELSE LET email_to_forward ==
                 Email(f.i, f.to, f.fm, f.s, f.b, f.ts, f.hp + 1, now)
         IN /\ outbox' = [outbox EXCEPT
                             ![n] = add_outgoing_email(@, email_to_forward)]
            /\ res' = IF RowCount(outbox[n], email_to_forward) > 0
                      THEN "inserted" ELSE "duplicate"
            /\ tx' = NoFrame
            /\ call' = NoCall
            /\ net' = flight
            /\ out' = <<>>
            /\ UNCHANGED inbox

\* faulty variant: the ack is not tested for its destination
HandleAck_NoAddressCheck(n, f, flight) ==
    /\ outbox' = [outbox EXCEPT ![n] = mark_outbox_acked(@, f.af, f.fm, now)]
    /\ res' = "none"
    /\ tx' = NoFrame
    /\ call' = NoCall
    /\ net' = flight
    /\ out' = _send_to_companion(n,
                   encode_companion_response(
                       RESP_STATUS_UPDATE,
                       [message_id |-> f.af,
                        status |-> STATUS_ACKED,
                        recipient_node_id |-> f.fm]))
    /\ UNCHANGED inbox

\* _handle_received_ack_packet
HandleAck(n, f, flight) ==
    IF f.to # n
    THEN /\ res' = "ignored"
         /\ tx' = NoFrame
         /\ call' = NoCall
         /\ net' = flight
         /\ out' = <<>>
         /\ UNCHANGED <<inbox, outbox>>
    ELSE /\ outbox' = [outbox EXCEPT
                          ![n] = mark_outbox_acked(@, f.af, f.fm, now)]
         /\ res' = "none"
         /\ tx' = NoFrame
         /\ call' = NoCall
         /\ net' = flight
         /\ out' = _send_to_companion(n,
                        encode_companion_response(
                            RESP_STATUS_UPDATE,
                            [message_id |-> f.af,
                             status |-> STATUS_ACKED,
                             recipient_node_id |-> f.fm]))
         /\ UNCHANGED inbox

\* _meshtastic_receive_handler on packet p; flight is what stays on the air
ReceiveHandler(n, p, flight) ==
    /\ IF ~running[n]
       THEN /\ res' = "none"
            /\ tx' = NoFrame
            /\ call' = NoCall
            /\ net' = flight
            /\ out' = <<>>
            /\ UNCHANGED <<inbox, outbox>>
       ELSE IF p.text.t = MSG_TYPE_EMAIL
       THEN HandleEmail(n, p.text, flight)
       ELSE HandleAck(n, p.text, flight)
    /\ UNCHANGED <<now, ticks, running, pc, scanNow, snapshot, batch,
                   companion_open,
                   stopping, listener, db, extra, port>>

\* a packet of the rest of the mesh reaches node n
Inject(n) ==
    /\ running[n]
    /\ \E f \in EnvFrames(now) : ReceiveHandler(n, Packet(NodeC, f), net)

\* a packet sent by a modelled node reaches node n
Deliver(n) ==
    /\ running[n]
    /\ \E p \in net : p.from # n /\ ReceiveHandler(n, p, net \ {p})

----------------------------------------------------------------------------
(* plugin.py: _handle_companion_command, CMD_SEND_EMAIL with valid         *)
(* parameters *)

\* the email is created with a generated id and queued; the answer is a
\* status_update, or an error_response if the id was already queued
SendEmail(n, to_node_id, body) ==
    \E message_id \in MsgIds :
       /\ Fresh(n, message_id)
       /\ LET email == Email(message_id, to_node_id, n, "", body, now, 0, now)
              was_added == RowCount(outbox[n], email) > 0
          IN /\ outbox' = [outbox EXCEPT ![n] = add_outgoing_email(@, email)]
             /\ res' = IF was_added THEN "inserted" ELSE "duplicate"
             /\ out' = _send_to_companion(n,
                    IF was_added
                    THEN encode_companion_response(
                             RESP_STATUS_UPDATE,
                             [message_id |-> message_id,
                              status |-> STATUS_PENDING])
                    ELSE encode_companion_response(
                             RESP_ERROR,
                             [command |-> CMD_SEND_EMAIL,
                              message |-> "duplicate"]))

LocalSend(n) ==
    /\ running[n]
    /\ companion_open[n]
    /\ \E to \in Nodes \ {n} : SendEmail(n, to, "hi")
    /\ tx' = NoFrame
    /\ call' = NoCall
    /\ UNCHANGED <<now, ticks, running, inbox, pc, scanNow, snapshot, batch,
                   net, companion_open,
                   stopping, listener, db, extra, port>>

----------------------------------------------------------------------------
(* plugin.py: the companion commands.  A command is one decoded line       *)
(* {"cmd": ..., "params": {...}}; a parameter value is a JSON value.       *)

Absent == [kind |-> "absent"]
Null == [kind |-> "null"]
IntVal(v) == [kind |-> "int", n |-> v]
\* a JSON string, as the sequence of its characters
StrVal(chars) == [kind |-> "str", s |-> chars]

DecDigits == <<"0", "1", "2", "3", "4", "5", "6", "7", "8", "9">>
HexDigits == DecDigits \o <<"a", "b", "c", "d", "e", "f">>

\* the value of digit c in the given base, or -1
DigitOf(c, base) ==
    LET ds == IF base = 16 THEN HexDigits ELSE DecDigits
    IN  IF \E k \in 1..Len(ds) : ds[k] = c
        THEN (CHOOSE k \in 1..Len(ds) : ds[k] = c) - 1
        ELSE -1

\* the digits of chars read in the given base, on top of acc; -1 if a
\* character is not a digit of the base
RECURSIVE DigitsValue(_, _, _)
DigitsValue(chars, base, acc) ==
    IF chars = <<>> THEN acc
    ELSE IF DigitOf(Head(chars), base) < 0 THEN -1
    ELSE DigitsValue(Tail(chars), base, acc * base + DigitOf(Head(chars), base))

ValueError == [ok |-> FALSE]
Parsed(v) == [ok |-> TRUE, val |-> v]

\* Python's int(text, 0) on an unsigned literal: 0x followed by hex digits,
\* or decimal digits without a leading zero
UnsignedBase0(chars) ==
    IF Len(chars) > 2 /\ chars[1] = "0" /\ chars[2] = "x"
    THEN IF DigitsValue(SubSeq(chars, 3, Len(chars)), 16, 0) < 0
         THEN ValueError
         ELSE Parsed(DigitsValue(SubSeq(chars, 3, Len(chars)), 16, 0))
    ELSE IF chars = <<>> \/ DigitsValue(chars, 10, 0) < 0 THEN ValueError
    ELSE IF Len(chars) > 1 /\ chars[1] = "0" /\ DigitsValue(chars, 10, 0) # 0
    THEN ValueError
    ELSE Parsed(DigitsValue(chars, 10, 0))

\* faulty variant: int(text), base 10 only
int_base0_Decimal(chars) ==
    IF chars = <<>> \/ DigitsValue(chars, 10, 0) < 0 THEN ValueError
    ELSE Parsed(DigitsValue(chars, 10, 0))

\* Python's int(text, 0)
int_base0(chars) ==
    IF chars # <<>> /\ chars[1] = "-"
    THEN LET u == UnsignedBase0(Tail(chars))
         IN  IF u.ok THEN Parsed(0 - u.val) ELSE ValueError
    ELSE UnsignedBase0(chars)

\* Python's str(v) of an integer
RECURSIVE str_int(_)
str_int(v) ==
    IF v < 0 THEN <<"-">> \o str_int(0 - v)
    ELSE IF v < 10 THEN <<DecDigits[v + 1]>>
    ELSE str_int(v \div 10) \o <<DecDigits[(v % 10) + 1]>>

\* str(value) of a JSON value
str(p) ==
    IF p.kind = "int" THEN str_int(p.n)
    ELSE IF p.kind = "str" THEN p.s
    ELSE <<"N", "o", "n", "e">>

\* int(str(params['to_node_id']), 0)
ParseNodeId(p) == int_base0(str(p))

\* the commands a companion sends in the model
ToNodeIdInputs ==
    {IntVal(NodeB), StrVal(<<"0", "x", "2", "0">>), StrVal(<<"3", "2">>),
     IntVal(0 - 1), StrVal(<<"-", "0", "x", "1">>), StrVal(<<"0", "3", "2">>),
     StrVal(<<"r", "e", "l", "a", "y">>), Null, Absent}
BodyInputs == {StrVal("hi"), StrVal(""), IntVal(5), Absent}
LimitInputs == {Absent, IntVal(1), IntVal(0), StrVal(<<"a", "l", "l">>), Null}
MessageIdInputs ==
    {StrVal(id) : id \in MsgIds \cup {"m9"}}
    \cup {StrVal(""), IntVal(7), Absent}
AliasInputs ==
    {StrVal(<<" ", "r", "l", "y", " ">>),
     StrVal(<<"a", "k", "i", "t", "a", "-", "r", "e", "l", "a", "y", "-", "1">>),
     Absent}

Params(to_node_id, body, limit, message_id, alias) ==
    [to_node_id |-> to_node_id, body |-> body, limit |-> limit,
     message_id |-> message_id, alias |-> alias]

NoParams == Params(Absent, Absent, Absent, Absent, Absent)

Commands ==
    {[cmd |-> CMD_SEND_EMAIL,
      params |-> Params(to, StrVal("hi"), Absent, Absent, Absent)] :
        to \in ToNodeIdInputs}
    \cup {[cmd |-> CMD_SEND_EMAIL,
           params |-> Params(IntVal(NodeB), body, Absent, Absent, Absent)] :
             body \in BodyInputs}
    \cup {[cmd |-> CMD_READ_EMAILS,
           params |-> Params(Absent, Absent, limit, Absent, Absent)] :
             limit \in LimitInputs}
    \cup {[cmd |-> CMD_GET_STATUS,
           params |-> Params(Absent, Absent, Absent, message_id, Absent)] :
             message_id \in MessageIdInputs}
    \cup {[cmd |-> CMD_SET_ALIAS,
           params |-> Params(Absent, Absent, Absent, Absent, alias)] :
             alias \in AliasInputs}
    \cup {[cmd |-> cmd, params |-> NoParams] : cmd \in {CMD_PING_PLUGIN, "reboot"}}

MAX_ALIAS_LEN == 12

\* str.strip() on the characters of a text
RECURSIVE lstrip(_)
lstrip(chars) ==
    IF chars # <<>> /\ Head(chars) = " " THEN lstrip(Tail(chars)) ELSE chars

RECURSIVE rstrip(_)
rstrip(chars) ==
    IF chars # <<>> /\ chars[Len(chars)] = " "
    THEN rstrip(SubSeq(chars, 1, Len(chars) - 1))
    ELSE chars

strip(chars) == rstrip(lstrip(chars))

\* _send_error_to_companion(error_message, command)
_send_error_to_companion(n, error_message, command) ==
    _send_to_companion(n, encode_companion_response(
        RESP_ERROR, [command |-> command, message |-> error_message]))

\* an exception raised inside the try block of _handle_companion_command:
\* both except clauses answer with _send_error_to_companion(.., command)
Raise(n, command, error_message) ==
    /\ out' = _send_error_to_companion(n, error_message, command)
    /\ res' = "error"
    /\ UNCHANGED outbox

\* faulty variant: SELECT * FROM outbox, without the WHERE clause
get_outbox_status_NoWhere(tbl, message_id) ==
    tbl

\* SELECT * FROM outbox WHERE message_id = ?: the rows fetchone() may
\* return, none if the id is not in the table
get_outbox_status(tbl, message_id) ==
    {r \in tbl : r.message_id = message_id}

\* SELECT * FROM inbox ORDER BY received_time DESC LIMIT ?: the results
\* a table can give, as sets of rows (the model keeps no received_time)
get_inbox_emails(tbl, limit) ==
    {S \in SUBSET tbl :
        Cardinality(S) = IF limit < Cardinality(tbl) THEN limit
                         ELSE Cardinality(tbl)}

\* limit = int(params.get('limit', 50)), 50 if not positive or not a
\* number; int(None) raises TypeError, which the inner except lets pass
LimitOf(p) ==
    LET DEFAULT == 50
        v == IF p.kind = "int" THEN Parsed(p.n)
             ELSE IF p.kind = "str" /\ DigitsValue(p.s, 10, 0) >= 0 /\ p.s # <<>>
             THEN Parsed(DigitsValue(p.s, 10, 0))
             ELSE ValueError
    IN  IF p.kind = "absent" THEN DEFAULT
        ELSE IF v.ok /\ v.val > 0 THEN v.val
        ELSE DEFAULT

\* _handle_companion_command(command, params) once the plugin is started
\* (db and local node id set)
HandleCompanionCommand(n, c) ==
    LET command == c.cmd
        params == c.params
    IN
    IF command = CMD_SEND_EMAIL THEN
        IF params.to_node_id.kind = "absent" \/ params.body.kind = "absent"
        THEN Raise(n, command, "Missing parameters")
        ELSE IF ~ParseNodeId(params.to_node_id).ok
        THEN Raise(n, command, "Invalid to_node_id format")
        ELSE IF params.body.kind # "str" \/ params.body.s = ""
        THEN Raise(n, command, "Email body cannot be empty.")
        ELSE SendEmail(n, ParseNodeId(params.to_node_id).val, params.body.s)
    ELSE IF command = CMD_READ_EMAILS THEN
        IF params.limit.kind = "null"
        THEN Raise(n, command, "TypeError")
        ELSE /\ \E inbox_emails \in get_inbox_emails(inbox[n], LimitOf(params.limit)) :
                  out' = _send_to_companion(n, encode_companion_response(
                             RESP_INBOX_LIST, [emails |-> inbox_emails]))
             /\ res' = "listed"
             /\ UNCHANGED outbox
    ELSE IF command = CMD_GET_STATUS THEN
        IF params.message_id.kind # "str" \/ params.message_id.s = ""
        THEN Raise(n, command, "Missing or invalid 'message_id'")
        ELSE LET message_id == params.message_id.s
                 found == get_outbox_status(outbox[n], message_id)
             IN  /\ \/ \E email_status \in found :
                          out' = _send_to_companion(n, encode_companion_response(
                              RESP_STATUS_UPDATE,
                              [message_id |-> message_id,
                               status |-> email_status.status,
                               recipient_node_id |-> email_status.to_node_id,
                               acked_by |-> email_status.acked_by_node_id,
                               retry_count |-> email_status.retry_count,
                               last_attempt |-> email_status.last_attempt_time]))
                    \/ /\ found = {}
                       /\ out' = _send_to_companion(n, encode_companion_response(
                              RESP_ERROR,
                              [command |-> command, message_id |-> message_id,
                               message |-> "Message ID not found in outbox."]))
                 /\ res' = "status"
                 /\ UNCHANGED outbox
    ELSE IF command = CMD_SET_ALIAS THEN
        IF params.alias.kind \in {"absent", "null"}
        THEN Raise(n, command, "Missing 'alias' parameter")
        ELSE IF Len(strip(str(params.alias))) > MAX_ALIAS_LEN
        THEN Raise(n, command, "Invalid alias.")
        ELSE \* setShortName(alias) returns or raises
             \/ /\ out' = _send_to_companion(n, encode_companion_response(
                       RESP_STATUS_UPDATE,
                       [status |-> "alias_set",
                        alias |-> strip(str(params.alias))]))
                /\ res' = "alias_set"
                /\ UNCHANGED outbox
             \/ Raise(n, command, "Failed to set node alias via Meshtastic")
    ELSE IF command = CMD_PING_PLUGIN THEN
        /\ out' = _send_to_companion(n, encode_companion_response(
               RESP_PONG, [timestamp |-> now]))
        /\ res' = "pong"
        /\ UNCHANGED outbox
    ELSE
        /\ out' = _send_to_companion(n, encode_companion_response(
               RESP_ERROR,
               [command |-> command,
                message |-> "Unknown command received by plugin."]))
        /\ res' = "unknown"
        /\ UNCHANGED outbox

\* _companion_listener_thread: the line of command c read, decoded and
\* handled
ListenerHandles(n, c) ==
    /\ running[n]
    /\ companion_open[n]
    /\ listener[n] = "alive"
    /\ tx' = NoFrame
    /\ call' = NoCall
    /\ UNCHANGED <<now, ticks, running, inbox, pc, scanNow, snapshot, batch,
                   net, companion_open,
                   stopping, listener, db, extra, port>>
    /\ HandleCompanionCommand(n, c)

Command(n) == \E c \in Commands : ListenerHandles(n, c)

\* _companion_listener_thread: serial.SerialException on the line; the port
\* is closed and the listener ends
SerialFault(n) ==
    /\ running[n]
    /\ companion_open[n]
    /\ listener[n] = "alive"
    /\ companion_open' = [companion_open EXCEPT ![n] = FALSE]
    /\ listener' = [listener EXCEPT ![n] = "exited"]
    /\ tx' = NoFrame
    /\ call' = NoCall
    /\ res' = "none"
    /\ out' = <<>>
    /\ UNCHANGED <<now, ticks, running, inbox, outbox, pc, scanNow, snapshot,
                   batch, net, stopping, db, extra, port>>

----------------------------------------------------------------------------
(* protocol.py: decode_lora_packet.  A packet of the transport carries, in *)
(* decoded.text, a text that json.loads turns into an object, into some    *)
(* other JSON value, or rejects.  An object is a record of the wire keys   *)
(* t, i, to, fm, s, b, ts, hp, af, each a JSON value or Absent.            *)

BoolVal(v) == [kind |-> "bool", b |-> v]
\* a JSON number with a fraction: whole + 1/2
FloatVal(whole) == [kind |-> "float", whole |-> whole]

\* isinstance(value, int): bool is a subclass of int
isinstance_int(v) == v.kind \in {"int", "bool"}

isinstance_str(v) == v.kind = "str"

\* the truth value of a JSON value, as `not value` tests it
Truthy(v) ==
    IF v.kind = "bool" THEN v.b
    ELSE IF v.kind = "int" THEN v.n # 0
    ELSE IF v.kind = "str" THEN v.s # ""
    ELSE v.kind = "float"

\* the integer a value accepted by isinstance(value, int) counts as
PyInt(v) == IF v.kind = "bool" THEN (IF v.b THEN 1 ELSE 0) ELSE v.n

\* json.dumps of the payload of an eml or ack frame, read back by
\* json.loads: the keys of the frame with their JSON values
JsonOf(frame) ==
    [t |-> StrVal(frame.t), i |-> StrVal(frame.i),
     to |-> IntVal(frame.to), fm |-> IntVal(frame.fm),
     s |-> IF frame.t = MSG_TYPE_EMAIL THEN StrVal(frame.s) ELSE Absent,
     b |-> IF frame.t = MSG_TYPE_EMAIL THEN StrVal(frame.b) ELSE Absent,
     ts |-> IntVal(frame.ts), hp |-> IntVal(frame.hp),
     af |-> IF frame.t = MSG_TYPE_ACK THEN StrVal(frame.af) ELSE Absent]

\* a text-message packet whose text is the JSON object data
TextPacket(from, data) ==
    [from |-> from, decoded |-> TRUE, portnum |-> "TEXT_MESSAGE_APP",
     text |-> [json |-> "object", data |-> data]]

NotDecodable == [ok |-> FALSE]

\* faulty variant: the subject is always forced to the empty string
decode_lora_packet_SubjectForced(packet) ==
    LET data == packet.text.data
    IN  IF ~packet.decoded THEN NotDecodable
        ELSE IF packet.portnum # "TEXT_MESSAGE_APP" THEN NotDecodable
        ELSE IF packet.text.json # "object" THEN NotDecodable
        ELSE IF ~Truthy(data.t) \/ ~Truthy(data.i) THEN NotDecodable
        ELSE IF ~isinstance_int(packet.from) THEN NotDecodable
        ELSE IF data.t = StrVal(MSG_TYPE_EMAIL) THEN
            IF \E k \in {"to", "fm", "b", "ts", "hp"} : data[k].kind = "absent"
            THEN NotDecodable
            ELSE IF \E k \in {"to", "fm", "ts", "hp"} : ~isinstance_int(data[k])
            THEN NotDecodable
            ELSE [ok |-> TRUE, from_node_id |-> packet.from,
                  data |-> [data EXCEPT !.s = StrVal("")]]
        ELSE IF data.t = StrVal(MSG_TYPE_ACK) THEN
            IF \E k \in {"af", "to", "fm", "ts", "hp"} : data[k].kind = "absent"
            THEN NotDecodable
            ELSE IF \E k \in {"to", "fm", "ts", "hp"} : ~isinstance_int(data[k])
            THEN NotDecodable
            ELSE IF ~isinstance_str(data.af) THEN NotDecodable
            ELSE [ok |-> TRUE, from_node_id |-> packet.from, data |-> data]
        ELSE NotDecodable

\* decode_lora_packet(packet): the validated data with the sender of the
\* packet, or None.  Every exception of json.loads and of the validation
\* is caught and gives None.
decode_lora_packet(packet) ==
    LET data == packet.text.data
    IN  IF ~packet.decoded THEN NotDecodable
        ELSE IF packet.portnum # "TEXT_MESSAGE_APP" THEN NotDecodable
        ELSE IF packet.text.json # "object" THEN NotDecodable
        ELSE IF ~Truthy(data.t) \/ ~Truthy(data.i) THEN NotDecodable
        ELSE IF ~isinstance_int(packet.from) THEN NotDecodable
        ELSE IF data.t = StrVal(MSG_TYPE_EMAIL) THEN
            IF \E k \in {"to", "fm", "b", "ts", "hp"} : data[k].kind = "absent"
            THEN NotDecodable
            ELSE IF \E k \in {"to", "fm", "ts", "hp"} : ~isinstance_int(data[k])
            THEN NotDecodable
            ELSE [ok |-> TRUE, from_node_id |-> packet.from,
                  data |-> [data EXCEPT
                              !.s = IF isinstance_str(@) THEN @
                                    ELSE StrVal("")]]
        ELSE IF data.t = StrVal(MSG_TYPE_ACK) THEN
            IF \E k \in {"af", "to", "fm", "ts", "hp"} : data[k].kind = "absent"
            THEN NotDecodable
            ELSE IF \E k \in {"to", "fm", "ts", "hp"} : ~isinstance_int(data[k])
            THEN NotDecodable
            ELSE IF ~isinstance_str(data.af) THEN NotDecodable
            ELSE [ok |-> TRUE, from_node_id |-> packet.from, data |-> data]
        ELSE NotDecodable

\* the fields the handlers read from the decoded data: data[MSG_KEY_...]
FrameOf(data) ==
    IF data.t = StrVal(MSG_TYPE_EMAIL)
    THEN [t |-> MSG_TYPE_EMAIL, i |-> data.i.s, to |-> PyInt(data.to),
          fm |-> PyInt(data.fm), s |-> data.s.s, b |-> data.b.s,
          ts |-> PyInt(data.ts), hp |-> PyInt(data.hp)]
    ELSE [t |-> MSG_TYPE_ACK, i |-> data.i.s, af |-> data.af.s,
          to |-> PyInt(data.to), fm |-> PyInt(data.fm),
          ts |-> PyInt(data.ts), hp |-> PyInt(data.hp)]

\* the emails other nodes of the mesh encode and send at time t
MeshEmails(t) ==
    {Email(i, to, NodeB, s, "hi", OldTime, 1, t) :
        i \in Uuids(NodeB), to \in {NodeA, NodeC}, s \in {"", "re"}}

\* the values a sender can put in place of the value of wire key k
Malformed(k) ==
    IF k = "t" THEN {Absent, Null, StrVal("als"), IntVal(5)}
    ELSE IF k = "i" THEN {Absent, Null, StrVal("")}
    ELSE IF k \in {"to", "fm", "ts", "hp"}
    THEN {Absent, Null, BoolVal(TRUE), FloatVal(1), StrVal("7")}
    ELSE IF k = "b" THEN {Absent}
    ELSE {Absent, Null, IntVal(5)}

\* the packets that reach a node at time t: frames encoded by other nodes,
\* the same with one key left out or given another value, and packets
\* that carry no JSON object, no text message or no integer sender
RawPackets(t) ==
    LET eml == JsonOf(encode_email_to_lora(
                   Email("m2", NodeA, NodeB, "re", "hi", OldTime, 1, t)))
        ack == JsonOf(encode_ack_to_lora("m2", NodeA, NodeB, t))
        fwd == JsonOf(encode_email_to_lora(
                   Email("m2", NodeC, NodeB, "re", "hi", OldTime, 1, t)))
    IN  {TextPacket(IntVal(NodeC), JsonOf(encode_email_to_lora(e))) :
            e \in MeshEmails(t)}
        \cup {TextPacket(IntVal(NodeC), ack)}
        \cup {TextPacket(IntVal(NodeC), [eml EXCEPT ![k[1]] = k[2]]) :
                k \in UNION {{<<key, v>> : v \in Malformed(key)} :
                                key \in {"t", "i", "to", "fm", "s", "b",
                                         "ts", "hp"}}}
        \cup {TextPacket(IntVal(NodeC), [ack EXCEPT ![k[1]] = k[2]]) :
                k \in UNION {{<<key, v>> : v \in Malformed(key)} :
                                key \in {"t", "i", "to", "fm", "af",
                                         "ts", "hp"}}}
        \cup {[TextPacket(IntVal(NodeC), eml) EXCEPT !.text.json = j] :
                j \in {"array", "invalid"}}
        \cup {[TextPacket(IntVal(NodeC), eml) EXCEPT !.portnum = "POSITION_APP"],
              [TextPacket(IntVal(NodeC), eml) EXCEPT !.decoded = FALSE],
              TextPacket(Null, eml), TextPacket(StrVal("!30"), eml)}
        \cup {TextPacket(IntVal(NodeC), [fwd EXCEPT !.hp = IntVal(0 - 2)])}

\* _meshtastic_receive_handler on a packet as the transport delivers it
ReceiveRaw(n, packet, flight) ==
    LET decoded_data == decode_lora_packet(packet)
    IN  IF running[n] /\ ~decoded_data.ok
        THEN /\ res' = "not_decodable"
             /\ tx' = NoFrame
             /\ call' = NoCall
             /\ net' = flight
             /\ out' = <<>>
             /\ UNCHANGED <<inbox, outbox, now, ticks, running, pc, scanNow,
                            snapshot, batch, companion_open,
                            stopping, listener, db, extra, port>>
        ELSE ReceiveHandler(n, Packet(PyInt(decoded_data.from_node_id),
                                      FrameOf(decoded_data.data)), flight)

\* a packet of the rest of the mesh, well formed or not, reaches node n
InjectRaw(n) ==
    /\ running[n]
    /\ \E packet \in RawPackets(now) : ReceiveRaw(n, packet, net)

----------------------------------------------------------------------------
(* plugin.py: _outgoing_queue_processor_thread *)

\* get_emails_to_send up to read_cursor.fetchall()
QPSelect(n) ==
    /\ running[n]
    /\ pc[n] = "idle"
    /\ \E rows \in SelectDue(outbox[n], now) :
          snapshot' = [snapshot EXCEPT ![n] = rows]
    /\ scanNow' = [scanNow EXCEPT ![n] = now]
    /\ pc' = [pc EXCEPT ![n] = "expire"]
    /\ tx' = NoFrame
    /\ call' = NoCall
    /\ res' = "none"
    /\ out' = <<>>
    /\ UNCHANGED <<now, ticks, running, inbox, outbox, batch, net,
                   companion_open,
                   stopping, listener, db, extra, port>>

\* get_emails_to_send from the loop over the fetched rows to its return
QPExpire(n) ==
    /\ pc[n] = "expire"
    /\ db[n]
    /\ outbox' = [outbox EXCEPT
                     ![n] = ExpireRows(@, snapshot[n], scanNow[n])]
    /\ batch' = [batch EXCEPT ![n] = EmailsToSend(snapshot[n], scanNow[n])]
    /\ snapshot' = [snapshot EXCEPT ![n] = <<>>]
    /\ pc' = [pc EXCEPT ![n] = IF batch'[n] = <<>> THEN "idle" ELSE "batch"]
    /\ tx' = NoFrame
    /\ call' = NoCall
    /\ scanNow' = [scanNow EXCEPT ![n] = 0]
    /\ res' = "scanned"
    /\ out' = <<>>
    /\ UNCHANGED <<now, ticks, running, inbox, net, companion_open,
                   stopping, listener, db, extra, port>>

\* email.hops >= config.MESSAGE_HOP_LIMIT, the check before sending
HopLimitReached(hops) == hops >= MESSAGE_HOP_LIMIT

\* faulty variant: the full hop limit whatever the hops of the email
RemainingHops_Full(hops) == MESSAGE_HOP_LIMIT

\* max(1, config.MESSAGE_HOP_LIMIT - email.hops)
RemainingHops(hops) ==
    IF MESSAGE_HOP_LIMIT - hops > 1 THEN MESSAGE_HOP_LIMIT - hops ELSE 1

AfterEntry(n) == IF Tail(batch[n]) = <<>> THEN "idle" ELSE "batch"

\* faulty variant: a failed transmission marks the row failed
OnMeshInterfaceError_MarkFailed(tbl, message_id, t) ==
    mark_outbox_failed(tbl, message_id, t)

\* except meshtastic.MeshInterfaceError: return False, and the else branch
\* of the queue processor that only logs: the store is not written
OnMeshInterfaceError(tbl, message_id, t) == tbl

\* one entry of the batch: the hop check, then _attempt_send_email
QPProcess(n) ==
    /\ pc[n] = "batch"
    /\ running[n]
    /\ LET email == Head(batch[n])
       IN IF HopLimitReached(email.hops)
          THEN /\ outbox' = [outbox EXCEPT
                     ![n] = mark_outbox_failed(@, email.message_id, now)]
               /\ res' = "hop_drop"
               /\ tx' = NoFrame
               /\ call' = NoCall
               /\ batch' = [batch EXCEPT ![n] = Tail(@)]
               /\ pc' = [pc EXCEPT ![n] = AfterEntry(n)]
               /\ UNCHANGED net
          ELSE /\ tx' = encode_email_to_lora(email)
               /\ call' = sendText(email.to_node_id,
                                   RemainingHops(email.hops))
               /\ \/ /\ res' = "accepted"
                     /\ net' \in Accepted(net, Packet(n, tx'))
                     /\ pc' = [pc EXCEPT ![n] = "record"]
                     /\ UNCHANGED batch
                     /\ UNCHANGED outbox
                  \/ /\ res' = "mesh_error"
                     /\ outbox' = [outbox EXCEPT
                           ![n] = OnMeshInterfaceError(
                                      @, email.message_id, now)]
                     /\ batch' = [batch EXCEPT ![n] = Tail(@)]
                     /\ pc' = [pc EXCEPT ![n] = AfterEntry(n)]
                     /\ UNCHANGED net
    /\ out' = <<>>
    /\ UNCHANGED <<now, ticks, running, inbox, scanNow, snapshot,
                   companion_open,
                   stopping, listener, db, extra, port>>

\* send_success: update_outbox_after_send_attempt
QPRecord(n) ==
    /\ pc[n] = "record"
    /\ db[n]
    /\ outbox' = [outbox EXCEPT
          ![n] = update_outbox_after_send_attempt(
                     @, Head(batch[n]).message_id, now)]
    /\ batch' = [batch EXCEPT ![n] = Tail(@)]
    /\ pc' = [pc EXCEPT ![n] = AfterEntry(n)]
    /\ res' = "none"
    /\ tx' = NoFrame
    /\ call' = NoCall
    /\ out' = <<>>
    /\ UNCHANGED <<now, ticks, running, inbox, scanNow, snapshot, net,
                   companion_open,
                   stopping, listener, db, extra, port>>

----------------------------------------------------------------------------
(* Faults: a sqlite3.Error inside a store operation, and a ProtocolError   *)
(* of the encoder, with the handlers that meet them *)

\* exceptions.py: the classes an exception is an instance of
ExceptionBases(exc) ==
    IF exc \in {"DatabaseError", "ProtocolError", "CommunicationError"}
    THEN {exc, "AkitaEmailError", "Exception"}
    ELSE {exc, "Exception"}

\* an except clause of one of the handlers matches the exception
Caught(handlers, exc) == ExceptionBases(exc) \cap handlers # {}

\* the except clauses of the queue processor loop
QPHandlers == {"DatabaseError", "Exception"}

\* faulty variant: only protocol errors are handled around the dispatch
ReceiveHandlers_ProtocolOnly == {"ProtocolError"}

\* the except clauses of _meshtastic_receive_handler
ReceiveHandlers ==
    {"DatabaseError", "ProtocolError", "CommunicationError",
     "AkitaEmailError", "Exception"}

\* faulty variant: the inserts log the sqlite3.Error and return as well
StoreFault_Swallowed(op) ==
    IF op = "get_emails_to_send" THEN "empty" ELSE "swallowed"

\* what a store operation does with a sqlite3.Error: the inserts raise
\* DatabaseError, the scan returns [], the updates log and return
StoreFault(op) ==
    IF op \in {"add_incoming_email", "add_outgoing_email"}
    THEN "DatabaseError"
    ELSE IF op = "get_emails_to_send" THEN "empty" ELSE "swallowed"

\* where the queue processor is after a faulted store call: at the point
\* the call returns to, at the top of the loop if the loop caught an
\* exception, and nowhere if the exception left the thread
QPAfterFault(outcome, normal) ==
    IF outcome \in {"empty", "swallowed"} THEN normal
    ELSE IF Caught(QPHandlers, outcome) THEN "idle" ELSE "dead"

\* get_emails_to_send fails: the transaction is rolled back
QPScanFault(n) ==
    /\ db[n]
    /\ pc[n] = "expire" \/ (pc[n] = "idle" /\ running[n])
    /\ pc' = [pc EXCEPT
                ![n] = QPAfterFault(StoreFault("get_emails_to_send"), "idle")]
    /\ snapshot' = [snapshot EXCEPT ![n] = <<>>]
    /\ scanNow' = [scanNow EXCEPT ![n] = 0]
    /\ res' = "store_fault"
    /\ tx' = NoFrame
    /\ call' = NoCall
    /\ out' = <<>>
    /\ UNCHANGED <<now, ticks, running, inbox, outbox, batch, net,
                   companion_open, stopping, listener, db, extra, port>>

\* update_outbox_after_send_attempt fails after an accepted transmission
QPRecordFault(n) ==
    /\ db[n]
    /\ pc[n] = "record"
    /\ pc' = [pc EXCEPT
                ![n] = QPAfterFault(
                           StoreFault("update_outbox_after_send_attempt"),
                           AfterEntry(n))]
    /\ batch' = [batch EXCEPT
                    ![n] = IF pc'[n] = "batch" THEN Tail(@) ELSE <<>>]
    /\ res' = "store_fault"
    /\ tx' = NoFrame
    /\ call' = NoCall
    /\ out' = <<>>
    /\ UNCHANGED <<now, ticks, running, inbox, outbox, scanNow, snapshot,
                   net, companion_open, stopping, listener, db, extra, port>>

\* mark_outbox_failed fails at the hop check of the queue processor
QPHopDropFault(n) ==
    /\ db[n]
    /\ pc[n] = "batch"
    /\ running[n]
    /\ HopLimitReached(Head(batch[n]).hops)
    /\ pc' = [pc EXCEPT
                ![n] = QPAfterFault(StoreFault("mark_outbox_failed"),
                                    AfterEntry(n))]
    /\ batch' = [batch EXCEPT
                    ![n] = IF pc'[n] = "batch" THEN Tail(@) ELSE <<>>]
    /\ res' = "store_fault"
    /\ tx' = NoFrame
    /\ call' = NoCall
    /\ out' = <<>>
    /\ UNCHANGED <<now, ticks, running, inbox, outbox, scanNow, snapshot,
                   net, companion_open, stopping, listener, db, extra, port>>

\* the store operation a received frame leads to, "none" if it leads to none
StoreCallOf(n, f) ==
    IF f.t = MSG_TYPE_EMAIL
    THEN IF f.to = n THEN "add_incoming_email"
         ELSE IF HopLimitExceeded(f.hp) THEN "none"
         ELSE "add_outgoing_email"
    ELSE IF f.to = n THEN "mark_outbox_acked" ELSE "none"

\* _meshtastic_receive_handler when the store call of frame f fails.  An
\* exception of the call ends the handling of the packet in the except
\* clauses of the handler, before the ack and the notification; after a
\* call that returned, the packet handler goes on: the ack of an email
\* (no notification, nothing was added), the notification of an ack
ReceiveStoreFaultOn(n, f) ==
    /\ running[n]
    /\ db[n]
    /\ StoreCallOf(n, f) # "none"
    /\ LET op == StoreCallOf(n, f)
           outcome == StoreFault(op)
           returned == outcome = "swallowed"
           ack == encode_ack_to_lora(f.i, f.fm, n, now)
       IN /\ res' = IF ~returned /\ ~Caught(ReceiveHandlers, outcome)
                    THEN "escaped"
                    ELSE IF op = "add_incoming_email" THEN "inbox_fault"
                    ELSE "store_fault"
          /\ IF returned /\ op = "add_incoming_email"
             THEN /\ tx' = ack
                  /\ call' = sendText(f.fm, None)
                  /\ net' \in Accepted(net, Packet(n, ack))
             ELSE /\ tx' = NoFrame
                  /\ call' = NoCall
                  /\ net' = net
          /\ out' = IF returned /\ op = "mark_outbox_acked"
                    THEN _send_to_companion(n,
                             encode_companion_response(
                                 RESP_STATUS_UPDATE,
                                 [message_id |-> f.af,
                                  status |-> STATUS_ACKED,
                                  recipient_node_id |-> f.fm]))
                    ELSE <<>>
    /\ UNCHANGED <<now, ticks, running, inbox, outbox, pc, scanNow, snapshot,
                   batch, companion_open, stopping, listener, db, extra,
                   port>>

\* a packet of the rest of the mesh reaches node n and the store call of
\* its handling fails
ReceiveStoreFault(n) ==
    \E f \in EnvFrames(now) : ReceiveStoreFaultOn(n, f)

\* _attempt_send_email when encode_email_to_lora raises ProtocolError: the
\* row is marked failed, sendText is not reached, False is returned
QPEncodeFault(n) ==
    /\ db[n]
    /\ pc[n] = "batch"
    /\ running[n]
    /\ ~HopLimitReached(Head(batch[n]).hops)
    /\ outbox' = [outbox EXCEPT
          ![n] = mark_outbox_failed(@, Head(batch[n]).message_id, now)]
    /\ batch' = [batch EXCEPT ![n] = Tail(@)]
    /\ pc' = [pc EXCEPT ![n] = AfterEntry(n)]
    /\ res' = "encode_error"
    /\ tx' = NoFrame
    /\ call' = NoCall
    /\ out' = <<>>
    /\ UNCHANGED <<now, ticks, running, inbox, scanNow, snapshot, net,
                   companion_open, stopping, listener, db, extra, port>>

----------------------------------------------------------------------------
(* plugin.py: stop() and the end of the worker threads *)

\* faulty variant: while True
LoopContinues_Always(n) == TRUE

\* while self.running: the test at the top of each worker loop
LoopContinues(n) == running[n]

\* the queue processor finds running cleared at the top of its loop
QPExit(n) ==
    /\ pc[n] = "idle"
    /\ ~LoopContinues(n)
    /\ pc' = [pc EXCEPT ![n] = "exited"]
    /\ tx' = NoFrame
    /\ call' = NoCall
    /\ res' = "none"
    /\ out' = <<>>
    /\ UNCHANGED <<now, ticks, running, inbox, outbox, scanNow, snapshot,
                   batch, net, companion_open, stopping, listener, db, extra, port>>

\* if not self.running: break, before an entry of the batch
QPBreak(n) ==
    /\ pc[n] = "batch"
    /\ ~running[n]
    /\ batch' = [batch EXCEPT ![n] = <<>>]
    /\ pc' = [pc EXCEPT ![n] = "idle"]
    /\ tx' = NoFrame
    /\ call' = NoCall
    /\ res' = "none"
    /\ out' = <<>>
    /\ UNCHANGED <<now, ticks, running, inbox, outbox, scanNow, snapshot, net,
                   companion_open, stopping, listener, db, extra, port>>

\* a store operation of the queue processor after stop() closed the store:
\* get_emails_to_send returns [] on the sqlite3.Error, and the exception of
\* update_outbox_after_send_attempt is caught by the loop
QPAbort(n) ==
    /\ pc[n] \in {"expire", "record"}
    /\ ~db[n]
    /\ snapshot' = [snapshot EXCEPT ![n] = <<>>]
    /\ scanNow' = [scanNow EXCEPT ![n] = 0]
    /\ batch' = [batch EXCEPT ![n] = <<>>]
    /\ pc' = [pc EXCEPT ![n] = "idle"]
    /\ tx' = NoFrame
    /\ call' = NoCall
    /\ res' = "db_closed"
    /\ out' = <<>>
    /\ UNCHANGED <<now, ticks, running, inbox, outbox, net, companion_open,
                   stopping, listener, db, extra, port>>

\* the companion listener finds running cleared or the port closed at the
\* top of its loop
ListenerExit(n) ==
    /\ listener[n] = "alive"
    /\ ~LoopContinues(n) \/ ~companion_open[n]
    /\ listener' = [listener EXCEPT ![n] = "exited"]
    /\ tx' = NoFrame
    /\ call' = NoCall
    /\ res' = "none"
    /\ out' = <<>>
    /\ UNCHANGED <<now, ticks, running, inbox, outbox, pc, scanNow, snapshot,
                   batch, net, companion_open, stopping, db, extra, port>>

\* stop(): self.running = False
Stop(n) ==
    /\ running[n]
    /\ stopping[n] = "no"
    /\ running' = [running EXCEPT ![n] = FALSE]
    /\ stopping' = [stopping EXCEPT ![n] = "join"]
    /\ tx' = NoFrame
    /\ call' = NoCall
    /\ res' = "none"
    /\ out' = <<>>
    /\ UNCHANGED <<now, ticks, inbox, outbox, pc, scanNow, snapshot, batch,
                   net, companion_open, listener, db, extra, port>>

\* faulty variant: thread.join() without a timeout
ThreadsJoined_NoTimeout(n) == pc[n] = "exited" /\ listener[n] # "alive"

\* thread.join(timeout=join_timeout) of every thread has returned: the
\* thread ended or the timeout ran out
ThreadsJoined(n) == TRUE

\* stop(): the joins of self._threads
JoinThreads(n) ==
    /\ stopping[n] = "join"
    /\ ThreadsJoined(n)
    /\ stopping' = [stopping EXCEPT ![n] = "close"]
    /\ tx' = NoFrame
    /\ call' = NoCall
    /\ res' = "none"
    /\ out' = <<>>
    /\ UNCHANGED <<now, ticks, running, inbox, outbox, pc, scanNow, snapshot,
                   batch, net, companion_open, listener, db, extra, port>>

\* stop(): companion_serial.close(), db.close(), self.db = None
CloseAll(n) ==
    /\ stopping[n] = "close"
    /\ companion_open' = [companion_open EXCEPT ![n] = FALSE]
    /\ db' = [db EXCEPT ![n] = FALSE]
    /\ stopping' = [stopping EXCEPT ![n] = "done"]
    /\ tx' = NoFrame
    /\ call' = NoCall
    /\ res' = "none"
    /\ out' = <<>>
    /\ UNCHANGED <<now, ticks, running, inbox, outbox, pc, scanNow, snapshot,
                   batch, net, listener, extra, port>>

\* start(): returns at once when already running; otherwise sets running,
\* opens the companion port and starts its listener when the port opens,
\* and starts a new queue processor thread.  self.db is only created by
\* __init__ and is left as stop() set it.  A queue processor that outlived
\* the join of stop() is still in its loop and finds running set again:
\* pc[n] goes on following it and the new thread is counted in extra[n],
\* where it cycles through "if not self.db: sleep; continue".
Start(n) ==
    /\ running[n] \/ stopping[n] = "done"
    /\ IF running[n]
       THEN UNCHANGED <<running, stopping, companion_open, listener, pc,
                        extra>>
       ELSE /\ running' = [running EXCEPT ![n] = TRUE]
            /\ stopping' = [stopping EXCEPT ![n] = "no"]
            /\ \E opened \in BOOLEAN :
                  /\ companion_open' = [companion_open EXCEPT ![n] = opened]
                  /\ listener' = [listener EXCEPT
                                     ![n] = IF opened THEN "alive" ELSE @]
            /\ IF pc[n] = "exited"
               THEN /\ pc' = [pc EXCEPT ![n] = "idle"]
                    /\ extra' = extra
               ELSE /\ extra[n] < MaxExtra
                    /\ extra' = [extra EXCEPT ![n] = @ + 1]
                    /\ pc' = pc
    /\ tx' = NoFrame
    /\ call' = NoCall
    /\ res' = "none"
    /\ out' = <<>>
    /\ UNCHANGED <<now, ticks, inbox, outbox, scanNow, snapshot, batch, net,
                   db, port>>

\* a queue processor thread started by a later start() finds running
\* cleared at the top of its loop
ExtraExit(n) ==
    /\ extra[n] > 0
    /\ ~LoopContinues(n)
    /\ extra' = [extra EXCEPT ![n] = @ - 1]
    /\ tx' = NoFrame
    /\ call' = NoCall
    /\ res' = "none"
    /\ out' = <<>>
    /\ UNCHANGED <<now, ticks, running, inbox, outbox, pc, scanNow, snapshot,
                   batch, net, companion_open, stopping, listener, db, port>>

----------------------------------------------------------------------------
(* The clock.  It advances by a retry interval or by an expiry window, and *)
(* does so while the queue processors sleep between two scans: a batch is  *)
(* handled within seconds.                                                 *)

Tick ==
    /\ ticks < MaxTicks
    /\ \A n \in Nodes : pc[n] = "idle"
    /\ \E d \in TickSteps : now' = now + d
    /\ ticks' = ticks + 1
    /\ tx' = NoFrame
    /\ call' = NoCall
    /\ res' = "none"
    /\ out' = <<>>
    /\ UNCHANGED <<running, inbox, outbox, pc, scanNow, snapshot, batch, net,
                   companion_open,
                   stopping, listener, db, extra, port>>

----------------------------------------------------------------------------
(* plugin.py: _send_to_companion seen at the level of the serial port.     *)
(* The receive callback and the companion listener are two threads that    *)
(* call companion_serial.write on the same port object; no lock is taken   *)
(* around the call (self._lock is never acquired).  A write hands the      *)
(* bytes of its line to the port in one piece or, when the port takes only *)
(* a part of them, in two; what two unsynchronised writes leave on the     *)
(* line is every interleaving of their pieces.                             *)

\* the threads that write to the companion port
Writers == {"receipt", "command"}

\* the lines a thread may have to write: the receipt path its
\* notifications, the command handler its responses
PayloadsOf(who, t) ==
    IF who = "receipt"
    THEN {encode_companion_response(
              RESP_NEW_EMAIL_NOTIFY,
              [message_id |-> i, from_node_id |-> NodeB, subject |-> ""]) :
            i \in Uuids(NodeB)}
         \cup
         {encode_companion_response(
              RESP_STATUS_UPDATE,
              [message_id |-> i, status |-> STATUS_ACKED,
               recipient_node_id |-> NodeB]) : i \in Uuids(NodeA)}
    ELSE {encode_companion_response(RESP_PONG, [timestamp |-> t]),
          encode_companion_response(
              RESP_ERROR, [command |-> "nop", message |-> "unknown"])}

\* the pieces in which the bytes of a line reach the port: the whole line,
\* or a first part and the rest, which ends with the newline
Pieces(who, payload) ==
    {<<[by |-> who, line |-> payload, part |-> 1, of |-> 1]>>,
     <<[by |-> who, line |-> payload, part |-> 1, of |-> 2],
       [by |-> who, line |-> payload, part |-> 2, of |-> 2]>>}

\* a thread enters companion_serial.write(message_payload.encode('utf-8'))
SerialWriteBegin(n, who) ==
    /\ running[n]
    /\ companion_open[n]
    /\ port[n][who] = <<>>
    /\ Len(port[n].written) + Len(port[n].receipt) + Len(port[n].command) + 2
       <= MaxWritten
    /\ \E payload \in PayloadsOf(who, now) :
          \E pieces \in Pieces(who, payload) :
             port' = [port EXCEPT ![n][who] = pieces]
    /\ tx' = NoFrame
    /\ call' = NoCall
    /\ res' = "none"
    /\ out' = <<>>
    /\ UNCHANGED <<now, ticks, running, inbox, outbox, pc, scanNow, snapshot,
                   batch, net, companion_open, stopping, listener, db,
                   extra>>

\* the port takes the next piece of a write under way
SerialWritePiece(n, who) ==
    /\ port[n][who] # <<>>
    /\ port' = [port EXCEPT
                   ![n].written = Append(@, Head(port[n][who])),
                   ![n][who] = Tail(@)]
    /\ tx' = NoFrame
    /\ call' = NoCall
    /\ res' = "none"
    /\ out' = <<>>
    /\ UNCHANGED <<now, ticks, running, inbox, outbox, pc, scanNow, snapshot,
                   batch, net, companion_open, stopping, listener, db,
                   extra>>

----------------------------------------------------------------------------
(* Specifications *)

InitStore ==
    /\ now = StartTime
    /\ ticks = 0
    /\ inbox = [n \in Nodes |-> {}]
    /\ outbox = [n \in Nodes |-> {}]
    /\ pc = [n \in Nodes |-> "idle"]
    /\ scanNow = [n \in Nodes |-> 0]
    /\ snapshot = [n \in Nodes |-> <<>>]
    /\ batch = [n \in Nodes |-> <<>>]
    /\ net = {}
    /\ tx = NoFrame
    /\ res = "none"
    /\ out = <<>>
    /\ call = NoCall
    /\ extra = [n \in Nodes |-> 0]
    /\ port = [n \in Nodes |-> PortIdle]

\* one relay, NodeA, started; the rest of the mesh is the environment
Init ==
    /\ InitStore
    /\ running = [n \in Nodes |-> n = NodeA]
    /\ companion_open = running
    /\ stopping = [n \in Nodes |-> "no"]
    /\ listener = [n \in Nodes |-> IF running[n] THEN "alive" ELSE "none"]
    /\ db = running

Next ==
    \/ \E n \in Nodes : Inject(n)
    \/ \E n \in Nodes : LocalSend(n)
    \/ \E n \in Nodes : QPSelect(n)
    \/ \E n \in Nodes : QPExpire(n)
    \/ \E n \in Nodes : QPProcess(n)
    \/ \E n \in Nodes : QPRecord(n)
    \/ Tick

Spec == Init /\ [][Next]_vars

\* one relay, NodeA, started, with its companion on the serial line
NextCompanion ==
    \/ \E n \in Nodes : Inject(n)
    \/ \E n \in Nodes : Command(n)
    \/ \E n \in Nodes : SerialFault(n)
    \/ \E n \in Nodes : QPSelect(n)
    \/ \E n \in Nodes : QPExpire(n)
    \/ \E n \in Nodes : QPProcess(n)
    \/ \E n \in Nodes : QPRecord(n)

SpecCompanion == Init /\ [][NextCompanion]_vars

\* one relay, NodeA, started; the mesh delivers arbitrary packets
NextCodec ==
    \/ \E n \in Nodes : InjectRaw(n)
    \/ \E n \in Nodes : QPSelect(n)
    \/ \E n \in Nodes : QPExpire(n)
    \/ \E n \in Nodes : QPProcess(n)
    \/ \E n \in Nodes : QPRecord(n)

SpecCodec == Init /\ [][NextCodec]_vars

\* one relay, NodeA, started and later stopped
NextShutdown ==
    \/ \E n \in Nodes : Inject(n)
    \/ \E n \in Nodes : LocalSend(n)
    \/ \E n \in Nodes : QPSelect(n)
    \/ \E n \in Nodes : QPExpire(n)
    \/ \E n \in Nodes : QPProcess(n)
    \/ \E n \in Nodes : QPRecord(n)
    \/ \E n \in Nodes : QPBreak(n)
    \/ \E n \in Nodes : QPAbort(n)
    \/ \E n \in Nodes : QPExit(n)
    \/ \E n \in Nodes : ListenerExit(n)
    \/ \E n \in Nodes : Stop(n)
    \/ \E n \in Nodes : JoinThreads(n)
    \/ \E n \in Nodes : CloseAll(n)

\* the worker threads and the caller of stop() are scheduled: a step of
\* theirs that stays possible is taken.  Every blocking call of a step
\* returns: sendText returns or raises, serial reads time out after 1 s,
\* the sleeps are finite.
FairShutdown ==
    \A n \in Nodes :
       /\ WF_vars(QPExpire(n) \/ QPProcess(n) \/ QPRecord(n))
       /\ WF_vars(QPBreak(n) \/ QPAbort(n) \/ QPExit(n))
       /\ WF_vars(ListenerExit(n))
       /\ WF_vars(JoinThreads(n))
       /\ WF_vars(CloseAll(n))

SpecShutdown == Init /\ [][NextShutdown]_vars /\ FairShutdown

\* one relay, NodeA, started, stopped and started again
NextRestart ==
    \/ \E n \in Nodes : LocalSend(n)
    \/ \E n \in Nodes : QPSelect(n)
    \/ \E n \in Nodes : QPExpire(n)
    \/ \E n \in Nodes : QPProcess(n)
    \/ \E n \in Nodes : QPRecord(n)
    \/ \E n \in Nodes : QPBreak(n)
    \/ \E n \in Nodes : QPAbort(n)
    \/ \E n \in Nodes : QPExit(n)
    \/ \E n \in Nodes : ExtraExit(n)
    \/ \E n \in Nodes : ListenerExit(n)
    \/ \E n \in Nodes : Stop(n)
    \/ \E n \in Nodes : JoinThreads(n)
    \/ \E n \in Nodes : CloseAll(n)
    \/ \E n \in Nodes : Start(n)

SpecRestart == Init /\ [][NextRestart]_vars

\* one relay, NodeA, forwarding the mail of the mesh, whose store and
\* encoder may fail
NextFault ==
    \/ \E n \in Nodes : Inject(n)
    \/ \E n \in Nodes : QPSelect(n)
    \/ \E n \in Nodes : QPExpire(n)
    \/ \E n \in Nodes : QPProcess(n)
    \/ \E n \in Nodes : QPRecord(n)
    \/ \E n \in Nodes : QPScanFault(n)
    \/ \E n \in Nodes : QPRecordFault(n)
    \/ \E n \in Nodes : QPHopDropFault(n)
    \/ \E n \in Nodes : QPEncodeFault(n)
    \/ \E n \in Nodes : ReceiveStoreFault(n)
    \/ Tick

SpecFault == Init /\ [][NextFault]_vars

\* the clock advances by the expiry window
Advance == Tick /\ now' = now + MESSAGE_EXPIRY_TIME

\* a packet of the rest of the mesh that is not mail for node n itself: an
\* ack, or an email to forward
InjectForOutbox(n) == Inject(n) /\ inbox' = inbox

\* one relay, NodeA, that keeps running while time passes
NextProgress ==
    \/ \E n \in Nodes : InjectForOutbox(n)
    \/ \E n \in Nodes : LocalSend(n)
    \/ \E n \in Nodes : QPSelect(n)
    \/ \E n \in Nodes : QPExpire(n)
    \/ \E n \in Nodes : QPProcess(n)
    \/ \E n \in Nodes : QPRecord(n)
    \/ Advance

\* the queue processor thread is scheduled as long as the relay runs, and
\* time passes whatever the threads do
FairProgress ==
    /\ \A n \in Nodes :
          WF_vars(QPSelect(n) \/ QPExpire(n) \/ QPProcess(n) \/ QPRecord(n))
    /\ SF_vars(Advance)

SpecProgress == Init /\ [][NextProgress]_vars /\ FairProgress

\* one relay, NodeA, whose receive callback and companion listener write
\* to the companion port
NextPort ==
    \/ \E n \in Nodes : \E who \in Writers : SerialWriteBegin(n, who)
    \/ \E n \in Nodes : \E who \in Writers : SerialWritePiece(n, who)

SpecPort == Init /\ [][NextPort]_vars

\* two relays, NodeA and NodeB, started; no other traffic on the mesh
InitE2E ==
    /\ InitStore
    /\ running = [n \in Nodes |-> TRUE]
    /\ companion_open = running
    /\ stopping = [n \in Nodes |-> "no"]
    /\ listener = [n \in Nodes |-> IF running[n] THEN "alive" ELSE "none"]
    /\ db = running

NextE2E ==
    \/ \E n \in Nodes : Deliver(n)
    \/ LocalSend(NodeA)
    \/ \E n \in Nodes : QPSelect(n)
    \/ \E n \in Nodes : QPExpire(n)
    \/ \E n \in Nodes : QPProcess(n)
    \/ \E n \in Nodes : QPRecord(n)
    \/ Tick

SpecE2E == InitE2E /\ [][NextE2E]_vars

----------------------------------------------------------------------------
(* Vocabulary of the properties *)

\* the packets node n can receive in the current state
Receivable(n) ==
    {Packet(NodeC, f) : f \in EnvFrames(now)} \cup {p \in net : p.from # n}

\* the receive callback of node n runs on packet p in this step
Receives(n, p) == ReceiveHandler(n, p, net \ {p})

\* the queue processor of node n handles the head of its batch in this step
Handles(n) ==
    /\ pc[n] = "batch"
    /\ \/ pc'[n] = "record"
       \/ batch'[n] = Tail(batch[n])

\* get_emails_to_send of node n returns in this step
ScanReturns(n) == pc[n] = "expire" /\ pc'[n] # "expire"

\* the message ids of a sequence of emails
IdsOf(emails) == {emails[k].message_id : k \in 1..Len(emails)}

----------------------------------------------------------------------------
\* C1: under any interleaving of the send path and the receipt path, an
\* Outbox row that is acked is never sent or pending afterwards, and a sent
\* row is never pending afterwards.
C1_StatusNeverRegresses ==
    [][\A n \in Nodes : \A r \in outbox[n] : \A q \in outbox'[n] :
          q.message_id = r.message_id =>
             /\ r.status = STATUS_ACKED =>
                   q.status \notin {STATUS_SENT, STATUS_PENDING}
             /\ r.status = STATUS_SENT => q.status # STATUS_PENDING]_vars

\* C2: once an Outbox row is failed, no later operation changes its status.
C2_FailedIsTerminal ==
    [][\A n \in Nodes : \A r \in outbox[n] : \A q \in outbox'[n] :
          (q.message_id = r.message_id /\ r.status = STATUS_FAILED)
             => q.status = STATUS_FAILED]_vars

\* C3: a relay that receives an eml frame for another node with hops = H-1
\* inserts an Outbox row with hops = H, and the queue processor, when it
\* handles that row, hands a frame carrying hops = H to the transport.
C3_ForwardedAtHopLimit ==
    [][\A n \in Nodes :
          /\ \A p \in Receivable(n) :
                (/\ running[n]
                 /\ p.text.t = MSG_TYPE_EMAIL
                 /\ p.text.to # n
                 /\ p.text.hp = MESSAGE_HOP_LIMIT - 1
                 /\ ~HasRow(outbox[n], p.text.i)
                 /\ Receives(n, p))
                => \E r \in outbox'[n] :
                      /\ r.message_id = p.text.i
                      /\ r.hops = MESSAGE_HOP_LIMIT
          /\ (/\ Handles(n)
              /\ Head(batch[n]).from_node_id # n
              /\ Head(batch[n]).hops = MESSAGE_HOP_LIMIT)
             => /\ tx' # NoFrame
                /\ tx'.i = Head(batch[n]).message_id
                /\ tx'.hp = MESSAGE_HOP_LIMIT]_vars

\* C4: a node that receives an eml frame for another node with
\* hops + 1 > H creates no Outbox row, writes nothing to the store and hands
\* nothing to the transport for that frame.
C4_DropBeyondHopLimit ==
    [][\A n \in Nodes : \A p \in Receivable(n) :
          (/\ running[n]
           /\ p.text.t = MSG_TYPE_EMAIL
           /\ p.text.to # n
           /\ p.text.hp + 1 > MESSAGE_HOP_LIMIT
           /\ Receives(n, p))
          => /\ outbox' = outbox
             /\ inbox' = inbox
             /\ tx' = NoFrame
             /\ net' \subseteq net]_vars

\* C4, its case: a frame at the hop limit has just been dropped by a relay
\* whose Outbox is empty.
C4_Witness ==
    /\ res = "dropped"
    /\ tx = NoFrame
    /\ outbox[NodeA] = {}

\* C5 as claimed: expiry counts from the origination timestamp, so no eml
\* frame whose origination timestamp is older than now - expiry_window is
\* handed to the transport.
C5_ExpiryFromOrigination ==
    tx.t = MSG_TYPE_EMAIL => ~(tx.ts < now - MESSAGE_EXPIRY_TIME)

\* C5 as amended: forwarding preserves the origination timestamp and stamps
\* the row with the time it is queued; a scan sets a row to failed only when
\* that queue time is older than the scan's now - expiry_window, and returns
\* only rows whose queue time is not.
C5_ExpiryFromQueueTime ==
    [][\A n \in Nodes :
          /\ \A p \in Receivable(n) :
                (/\ running[n]
                 /\ p.text.t = MSG_TYPE_EMAIL
                 /\ p.text.to # n
                 /\ p.text.hp + 1 <= MESSAGE_HOP_LIMIT
                 /\ ~HasRow(outbox[n], p.text.i)
                 /\ Receives(n, p))
                => \E q \in outbox'[n] :
                      /\ q.message_id = p.text.i
                      /\ q.timestamp = p.text.ts
                      /\ q.created_time = now
          /\ \A r \in outbox[n] : \A q \in outbox'[n] :
                q.message_id = r.message_id => q.timestamp = r.timestamp
          /\ ScanReturns(n) =>
                /\ \A r \in outbox[n] : \A q \in outbox'[n] :
                      (/\ q.message_id = r.message_id
                       /\ r.status # STATUS_FAILED
                       /\ q.status = STATUS_FAILED)
                      => r.created_time < scanNow[n] - MESSAGE_EXPIRY_TIME
                /\ \A k \in 1..Len(batch'[n]) :
                      ~(batch'[n][k].created_time
                           < scanNow[n] - MESSAGE_EXPIRY_TIME)]_vars

\* C5, its case: a forwarded email whose origination timestamp is older than
\* the expiry window has been handed to the transport and accepted.
C5_Witness ==
    /\ res = "accepted"
    /\ tx.t = MSG_TYPE_EMAIL
    /\ tx.fm # NodeA
    /\ tx.ts < now - MESSAGE_EXPIRY_TIME

\* C6 as claimed: after a scan no pending or sent row is older than the
\* scan's now - expiry_window.
C6_NoExpiredRowAfterScan ==
    [][\A n \in Nodes :
          ScanReturns(n) =>
             \A q \in outbox'[n] :
                q.status \in {STATUS_PENDING, STATUS_SENT}
                   => ~(q.created_time < scanNow[n] - MESSAGE_EXPIRY_TIME)]_vars

\* C6 as amended: after a scan no pending row, and no sent row whose
\* last_attempt_time is older than the scan's now - retry_interval, is older
\* than now - expiry_window; a sent row still within its retry interval is
\* left as it is by the scan.
C6_NoExpiredDueRowAfterScan ==
    [][\A n \in Nodes :
          ScanReturns(n) =>
             /\ \A q \in outbox'[n] :
                   (\/ q.status = STATUS_PENDING
                    \/ /\ q.status = STATUS_SENT
                       /\ q.last_attempt_time
                             < scanNow[n] - MESSAGE_RETRY_INTERVAL)
                   => ~(q.created_time < scanNow[n] - MESSAGE_EXPIRY_TIME)
             /\ \A r \in outbox[n] :
                   (/\ r.status = STATUS_SENT
                    /\ ~(r.last_attempt_time
                            < scanNow[n] - MESSAGE_RETRY_INTERVAL))
                   => r \in outbox'[n]]_vars

\* C6, its case: a scan has just set to failed a row that was sent, due for
\* a retry and older than the expiry window.
C6_Witness ==
    /\ res = "scanned"
    /\ \E r \in outbox[NodeA] :
          /\ r.status = STATUS_FAILED
          /\ r.retry_count >= 1
          /\ r.last_attempt_time = now
          /\ r.created_time < now - MESSAGE_EXPIRY_TIME

\* C7: time does not run backwards and a row keeps its creation time; a row
\* that is pending and older than the scan's now - expiry_window when a scan
\* returns has been set to failed by that scan and is not in its result, and
\* no scan returns a row older than its now - expiry_window.
C7_ExpiryPrecedence ==
    [][/\ now' >= now
       /\ \A n \in Nodes :
             /\ \A r \in outbox[n] : \E q \in outbox'[n] :
                   /\ q.message_id = r.message_id
                   /\ q.created_time = r.created_time
             /\ (pc'[n] = "expire" /\ pc[n] # "expire") => scanNow'[n] = now
             /\ ScanReturns(n) =>
                   /\ scanNow[n] = now
                   /\ \A r \in outbox[n] :
                         r.created_time < scanNow[n] - MESSAGE_EXPIRY_TIME
                            => /\ r.message_id \notin IdsOf(batch'[n])
                               /\ r.status = STATUS_PENDING
                                     => \E q \in outbox'[n] :
                                           /\ q.message_id = r.message_id
                                           /\ q.status = STATUS_FAILED]_vars

\* C7, its case: a scan has just set to failed a never-attempted row older
\* than the expiry window, and its result does not hold that row.
C7_Witness ==
    /\ res = "scanned"
    /\ \E r \in outbox[NodeA] :
          /\ r.status = STATUS_FAILED
          /\ r.retry_count = 0
          /\ r.hops < MESSAGE_HOP_LIMIT
          /\ r.last_attempt_time = now
          /\ r.created_time < now - MESSAGE_EXPIRY_TIME
          /\ r.message_id \notin IdsOf(batch[NodeA])

\* C8: a scan does not return a sent row whose last_attempt_time is within
\* retry_interval of the scan's now, and returns a sent row whose
\* last_attempt_time is older than that, provided the row is not expired.
C8_RetryGating ==
    [][\A n \in Nodes :
          ScanReturns(n) =>
             \A r \in outbox[n] :
                r.status = STATUS_SENT =>
                   /\ ~(r.last_attempt_time < scanNow[n] - MESSAGE_RETRY_INTERVAL)
                         => r.message_id \notin IdsOf(batch'[n])
                   /\ (/\ r.last_attempt_time
                             < scanNow[n] - MESSAGE_RETRY_INTERVAL
                       /\ ~(r.created_time < scanNow[n] - MESSAGE_EXPIRY_TIME))
                         => r.message_id \in IdsOf(batch'[n])]_vars

\* C8, its case: a scan has just returned a sent row for a retry while
\* another scan, earlier, left that row out (it has been attempted once).
C8_Witness ==
    /\ res = "scanned"
    /\ \E k \in 1..Len(batch[NodeA]) :
          /\ batch[NodeA][k].status = STATUS_SENT
          /\ batch[NodeA][k].retry_count = 1
          /\ batch[NodeA][k].last_attempt_time < now - MESSAGE_RETRY_INTERVAL

\* at most one row of table tbl has a given message id
UniqueIds(tbl) ==
    \A r \in tbl : \A q \in tbl : r.message_id = q.message_id => r = q

\* C9: each table holds at most one row per message id; an insert of an
\* email answers true iff no row of that id was in the table, and then the
\* table is the old one plus the new row; an insert of an id already in the
\* table answers false and leaves the table as it was.
C9_InsertIdempotent ==
    /\ [](\A n \in Nodes : UniqueIds(inbox[n]) /\ UniqueIds(outbox[n]))
    /\ [][\A n \in Nodes : \A p \in Receivable(n) :
             (/\ running[n]
              /\ p.text.t = MSG_TYPE_EMAIL
              /\ p.text.to = n \/ p.text.hp + 1 <= MESSAGE_HOP_LIMIT
              /\ Receives(n, p))
             => LET tbl  == IF p.text.to = n THEN inbox[n] ELSE outbox[n]
                    tblN == IF p.text.to = n THEN inbox'[n] ELSE outbox'[n]
                IN  /\ (res' = "inserted") <=> ~HasRow(tbl, p.text.i)
                    /\ (res' = "duplicate") <=> HasRow(tbl, p.text.i)
                    /\ HasRow(tbl, p.text.i) => tblN = tbl
                    /\ ~HasRow(tbl, p.text.i) =>
                          /\ tbl \subseteq tblN
                          /\ Cardinality(tblN) = Cardinality(tbl) + 1
                          /\ HasRow(tblN, p.text.i)]_vars

\* C9, its case: an email has just been offered to an Outbox that already
\* holds a row of that id, a row that has been sent since its insertion.
C9_Witness ==
    /\ res = "duplicate"
    /\ Cardinality(outbox[NodeA]) = 1
    /\ \E r \in outbox[NodeA] :
          /\ r.from_node_id # NodeA
          /\ r.status = STATUS_SENT
          /\ r.retry_count = 1

\* C10: with hop limit 7, an email originated on A for B is a pending row
\* of hops 0; when the queue processor's first transmission of it has been
\* accepted the row is sent with retry_count 1; B, receiving the frame, has
\* the email in its Inbox and hands an ack for it, addressed to A, to the
\* transport; A, receiving that ack, has the row acked with acked_by = B.
C10_EndToEnd ==
    /\ [](\A r \in outbox[NodeA] :
             /\ r.status = STATUS_PENDING => r.hops = 0 /\ r.retry_count = 0
             /\ r.status = STATUS_ACKED =>
                   /\ r.acked_by_node_id = NodeB
                   /\ HasRow(inbox[NodeB], r.message_id))
    /\ [][/\ \A r \in outbox'[NodeA] :
                ~HasRow(outbox[NodeA], r.message_id)
                   => /\ r.status = STATUS_PENDING
                      /\ r.hops = 0
                      /\ r.to_node_id = NodeB
                      /\ r.from_node_id = NodeA
          /\ (pc[NodeA] = "record" /\ pc'[NodeA] # "record") =>
                \E r \in outbox'[NodeA] :
                   /\ r.message_id = Head(batch[NodeA]).message_id
                   /\ r.status = STATUS_SENT
                   /\ Head(batch[NodeA]).status = STATUS_PENDING
                         => r.retry_count = 1
          /\ \A p \in net :
                (/\ p.text.t = MSG_TYPE_EMAIL
                 /\ p.text.to = NodeB
                 /\ Receives(NodeB, p))
                => /\ HasRow(inbox'[NodeB], p.text.i)
                   /\ tx' # NoFrame
                   /\ tx'.t = MSG_TYPE_ACK
                   /\ tx'.af = p.text.i
                   /\ tx'.to = NodeA
                   /\ tx'.fm = NodeB
          /\ \A p \in net :
                (/\ p.text.t = MSG_TYPE_ACK
                 /\ p.text.to = NodeA
                 /\ HasRow(outbox[NodeA], p.text.af)
                 /\ Receives(NodeA, p))
                => \E r \in outbox'[NodeA] :
                      /\ r.message_id = p.text.af
                      /\ r.status = STATUS_ACKED
                      /\ r.acked_by_node_id = NodeB]_vars

\* C10, its case: A's row, transmitted once, is acked by B and B's Inbox
\* holds the email.
C10_Witness ==
    \E r \in outbox[NodeA] :
       /\ r.status = STATUS_ACKED
       /\ r.acked_by_node_id = NodeB
       /\ r.retry_count = 1
       /\ r.hops = 0
       /\ \E m \in inbox[NodeB] :
             m.message_id = r.message_id /\ m.from_node_id = NodeA

\* the new_email_notify frames among the frames written in a step
NewMailNotes(frames) ==
    {k \in 1..Len(frames) : frames[k].resp = RESP_NEW_EMAIL_NOTIFY}

\* C11: a running node hands an ack (ack_for = the message id, to = the
\* frame's from, from = the local node) to the transport on every receipt
\* of an eml frame addressed to itself, whether or not the id is already in
\* its Inbox.
C11_AckOnEveryReceipt ==
    [][\A n \in Nodes : \A p \in Receivable(n) :
          (/\ running[n]
           /\ p.text.t = MSG_TYPE_EMAIL
           /\ p.text.to = n
           /\ Receives(n, p))
          => /\ tx' # NoFrame
             /\ tx'.t = MSG_TYPE_ACK
             /\ tx'.af = p.text.i
             /\ tx'.to = p.text.fm
             /\ tx'.fm = n]_vars

\* C11, its case: an ack has just been handed to the transport for a frame
\* whose id was already in the Inbox.
C11_Witness ==
    /\ res = "duplicate"
    /\ tx # NoFrame
    /\ tx.t = MSG_TYPE_ACK
    /\ tx.fm = NodeA
    /\ HasRow(inbox[NodeA], tx.af)
    /\ out = <<>>

\* C12: on receipt of an eml frame addressed to the local node a
\* new_email_notify frame is written to the companion iff the Inbox insert
\* added a row; every new_email_notify frame is for an id that the same step
\* added to an Inbox, and Inbox rows stay, so no id is notified twice.
C12_NotifyIffNew ==
    [][/\ \A n \in Nodes : \A p \in Receivable(n) :
             (/\ running[n]
              /\ p.text.t = MSG_TYPE_EMAIL
              /\ p.text.to = n
              /\ Receives(n, p))
             => /\ (NewMailNotes(out') # {}) <=> ~HasRow(inbox[n], p.text.i)
                /\ Cardinality(NewMailNotes(out')) <= 1
                /\ \A k \in NewMailNotes(out') :
                      out'[k].data.message_id = p.text.i
       /\ \A k \in NewMailNotes(out') :
             \E n \in Nodes :
                /\ ~HasRow(inbox[n], out'[k].data.message_id)
                /\ HasRow(inbox'[n], out'[k].data.message_id)
       /\ \A n \in Nodes : inbox[n] \subseteq inbox'[n]]_vars

\* C12, its case: the frame of an id already notified has been received
\* again and nothing has been written to the companion.
C12_Witness ==
    /\ res = "duplicate"
    /\ tx # NoFrame
    /\ tx.t = MSG_TYPE_ACK
    /\ HasRow(inbox[NodeA], tx.af)
    /\ NewMailNotes(out) = {}
    /\ companion_open[NodeA]

\* C13: a node that receives an eml frame for another node with
\* hops + 1 <= hop limit and no Outbox row of that id adds exactly one
\* Outbox row: pending, hops = received hops + 1, and id, to, from and
\* origination timestamp those of the frame; its Inbox is unchanged and no
\* ack is handed to the transport.
C13_ForwardInsertsOneRow ==
    [][\A n \in Nodes : \A p \in Receivable(n) :
          (/\ running[n]
           /\ p.text.t = MSG_TYPE_EMAIL
           /\ p.text.to # n
           /\ p.text.hp + 1 <= MESSAGE_HOP_LIMIT
           /\ ~HasRow(outbox[n], p.text.i)
           /\ Receives(n, p))
          => /\ \E q \in outbox'[n] :
                   /\ outbox'[n] = outbox[n] \cup {q}
                   /\ q.status = STATUS_PENDING
                   /\ q.hops = p.text.hp + 1
                   /\ q.message_id = p.text.i
                   /\ q.to_node_id = p.text.to
                   /\ q.from_node_id = p.text.fm
                   /\ q.timestamp = p.text.ts
             /\ Cardinality(outbox'[n]) = Cardinality(outbox[n]) + 1
             /\ inbox' = inbox
             /\ tx' = NoFrame
             /\ net' \subseteq net]_vars

\* C13, its case: a relay has just queued a frame of another node for
\* forwarding, next to a row of its own.
C13_Witness ==
    /\ res = "inserted"
    /\ tx = NoFrame
    /\ Cardinality(outbox[NodeA]) = 2
    /\ \E q \in outbox[NodeA] :
          /\ q.from_node_id = NodeB
          /\ q.to_node_id = NodeC
          /\ q.status = STATUS_PENDING
          /\ q.created_time = now
          /\ q.timestamp = OldTime
          /\ q.hops = MESSAGE_HOP_LIMIT

\* C14: an ack frame addressed to the local node sets the Outbox row whose
\* id is ack_for to acked with acked_by = the frame's from, and one
\* status_update frame for that id is written to the companion; no other
\* Outbox row and no Inbox row changes.
C14_AckMarksRow ==
    [][\A n \in Nodes : \A p \in Receivable(n) :
          (/\ running[n]
           /\ p.text.t = MSG_TYPE_ACK
           /\ p.text.to = n
           /\ Receives(n, p))
          => /\ \A r \in outbox[n] :
                   IF r.message_id = p.text.af
                   THEN [r EXCEPT !.status = STATUS_ACKED,
                                  !.acked_by_node_id = p.text.fm,
                                  !.last_attempt_time = now] \in outbox'[n]
                   ELSE r \in outbox'[n]
             /\ Cardinality(outbox'[n]) = Cardinality(outbox[n])
             /\ \A m \in Nodes \ {n} : outbox'[m] = outbox[m]
             /\ inbox' = inbox
             /\ Len(out') = 1
             /\ out'[1].resp = RESP_STATUS_UPDATE
             /\ out'[1].data.message_id = p.text.af
             /\ out'[1].data.status = STATUS_ACKED]_vars

\* C14, its case: of two Outbox rows one has just been acked by NodeB, the
\* companion has been told, and the other row is not acked.
C14_Witness ==
    /\ Len(out) = 1
    /\ out[1].resp = RESP_STATUS_UPDATE
    /\ out[1].data.status = STATUS_ACKED
    /\ \E r \in outbox[NodeA] :
          /\ r.message_id = out[1].data.message_id
          /\ r.status = STATUS_ACKED
          /\ r.acked_by_node_id = NodeB
          /\ r.last_attempt_time = now
    /\ \E q \in outbox[NodeA] :
          /\ q.message_id # out[1].data.message_id
          /\ q.status # STATUS_ACKED

\* C15: an ack frame whose to is not the local node changes no Inbox or
\* Outbox row, queues nothing, hands nothing to the transport and writes
\* nothing to the companion.
C15_ForeignAckIgnored ==
    [][\A n \in Nodes : \A p \in Receivable(n) :
          (/\ running[n]
           /\ p.text.t = MSG_TYPE_ACK
           /\ p.text.to # n
           /\ Receives(n, p))
          => /\ inbox' = inbox
             /\ outbox' = outbox
             /\ batch' = batch
             /\ tx' = NoFrame
             /\ net' \subseteq net
             /\ out' = <<>>]_vars

\* C15, its case: an ack for another node has just been ignored by a relay
\* that holds a sent row.
C15_Witness ==
    /\ res = "ignored"
    /\ tx = NoFrame
    /\ out = <<>>
    /\ \E r \in outbox[NodeA] : r.status = STATUS_SENT

\* C16: every eml frame the queue processor hands to the transport carries
\* hops <= the hop limit.
C16_TransmittedHopsBounded ==
    (tx # NoFrame /\ tx.t = MSG_TYPE_EMAIL) => tx.hp <= MESSAGE_HOP_LIMIT

\* C16, its case: the transport has accepted a forwarded email from the
\* queue processor.
C16_Witness ==
    /\ res = "accepted"
    /\ tx # NoFrame
    /\ tx.t = MSG_TYPE_EMAIL
    /\ tx.fm # NodeA
    /\ tx.hp >= 1

\* C17: a valid submit command (destination NodeB written as a number, as
\* hexadecimal or as decimal text; a non-empty string body) adds exactly one
\* row to the outbox, whose id was not in the outbox, from the local node to
\* the requested destination, hops 0, pending, retry_count 0, and is
\* answered with one status_update frame carrying that id; the inbox is
\* unchanged.
C17_SubmitQueuesOneRow ==
    [][\A n \in Nodes :
         \A to \in {IntVal(NodeB), StrVal(<<"0", "x", "2", "0">>),
                    StrVal(<<"3", "2">>)} :
            ListenerHandles(n, [cmd |-> CMD_SEND_EMAIL,
                                params |-> Params(to, StrVal("hi"), Absent,
                                                  Absent, Absent)])
            => /\ inbox' = inbox
               /\ Len(out') = 1
               /\ out'[1].resp = RESP_STATUS_UPDATE
               /\ \E q \in outbox'[n] :
                     /\ ~HasRow(outbox[n], q.message_id)
                     /\ outbox'[n] = outbox[n] \cup {q}
                     /\ outbox' = [outbox EXCEPT ![n] = outbox'[n]]
                     /\ q.from_node_id = n
                     /\ q.to_node_id = NodeB
                     /\ q.body = "hi"
                     /\ q.hops = 0
                     /\ q.status = STATUS_PENDING
                     /\ q.retry_count = 0
                     /\ out'[1].data.message_id = q.message_id]_vars

\* a submit was answered with the id of the row it added beside a row the
\* outbox already held
C17_Witness ==
    /\ res = "inserted"
    /\ Len(out) = 1
    /\ out[1].resp = RESP_STATUS_UPDATE
    /\ Cardinality(outbox[NodeA]) = 2
    /\ \E q \in outbox[NodeA] :
          /\ q.message_id = out[1].data.message_id
          /\ q.from_node_id = NodeA
          /\ q.to_node_id = NodeB
          /\ q.status = STATUS_PENDING

\* C18: a submit command whose destination is missing, not an integer or
\* outside 0..0xFFFFFFFF (here: negative), or whose body is missing or
\* empty, adds no outbox row, is answered with exactly one error_response
\* frame, and leaves the companion line open.
C18_InvalidSubmitRejected ==
    [][\A n \in Nodes :
         \A c \in Commands :
            ( /\ c.cmd = CMD_SEND_EMAIL
              /\ \/ c.params.to_node_id \in
                       {Absent, Null, StrVal(<<"r", "e", "l", "a", "y">>),
                        IntVal(0 - 1), StrVal(<<"-", "0", "x", "1">>)}
                 \/ c.params.body \in {Absent, StrVal("")}
              /\ ListenerHandles(n, c) )
            => /\ outbox' = outbox
               /\ Len(out') = 1
               /\ out'[1].resp = RESP_ERROR
               /\ companion_open'[n]]_vars

\* C19: a get_status command for a message id that has no outbox row is
\* answered with exactly one error_response frame that names the command
\* and the id and says the id was not found; inbox and outbox are unchanged
\* and the companion line stays open with the relay running.
C19_StatusOfUnknownId ==
    [][\A n \in Nodes :
         \A id \in MsgIds \cup {"m9"} :
            ( /\ ~HasRow(outbox[n], id)
              /\ ListenerHandles(n, [cmd |-> CMD_GET_STATUS,
                                     params |-> Params(Absent, Absent, Absent,
                                                       StrVal(id), Absent)]) )
            => /\ Len(out') = 1
               /\ out'[1].resp = RESP_ERROR
               /\ out'[1].data.command = CMD_GET_STATUS
               /\ out'[1].data.message = "Message ID not found in outbox."
               /\ out'[1].data.message_id = id
               /\ inbox' = inbox
               /\ outbox' = outbox
               /\ companion_open'[n]
               /\ running'[n]]_vars

\* the status of an id was asked of a relay whose outbox holds some other
\* row, and the answer was not-found
C19_Witness ==
    /\ Len(out) = 1
    /\ out[1].resp = RESP_ERROR
    /\ out[1].data.command = CMD_GET_STATUS
    /\ out[1].data.message = "Message ID not found in outbox."
    /\ outbox[NodeA] # {}
    /\ ~HasRow(outbox[NodeA], out[1].data.message_id)
    /\ companion_open[NodeA]

\* C20: every command the listener handles (send_email, read_emails,
\* get_status, set_alias, ping_plugin, an unknown name) is answered with
\* exactly one frame and leaves the listener running on an open line; every
\* error_response names the command; and a command that fails validation
\* (destination missing, not an integer or out of range; body missing, empty
\* or not a string; limit null; message id missing, empty or not a string;
\* alias missing or too long; unknown name) is answered with an
\* error_response.
C20_OneResponsePerCommand ==
    [][\A n \in Nodes :
         \A c \in Commands :
            ListenerHandles(n, c)
            => /\ Len(out') = 1
               /\ companion_open'[n]
               /\ running'[n]
               /\ out'[1].resp = RESP_ERROR => out'[1].data.command = c.cmd
               /\ ( \/ /\ c.cmd = CMD_SEND_EMAIL
                       /\ \/ c.params.to_node_id \in
                                {Absent, Null,
                                 StrVal(<<"r", "e", "l", "a", "y">>),
                                 IntVal(0 - 1), StrVal(<<"-", "0", "x", "1">>)}
                          \/ c.params.body \in {Absent, StrVal(""), IntVal(5)}
                    \/ c.cmd = CMD_READ_EMAILS /\ c.params.limit = Null
                    \/ /\ c.cmd = CMD_GET_STATUS
                       /\ c.params.message_id \in {Absent, StrVal(""), IntVal(7)}
                    \/ /\ c.cmd = CMD_SET_ALIAS
                       /\ \/ c.params.alias = Absent
                          \/ /\ c.params.alias.kind = "str"
                             /\ Len(c.params.alias.s) > MAX_ALIAS_LEN + 2
                    \/ c.cmd = "reboot" )
                  => out'[1].resp = RESP_ERROR]_vars

\* C21: the frame encode_email_to_lora makes of an email with an integer
\* timestamp, delivered as a text packet with an integer sender, is decoded
\* by decode_lora_packet to the same id, to, from, body, hops, timestamp and
\* subject; a relay that had no row of that id stores exactly these values
\* (in its inbox when the email is for it, else in its outbox with one hop
\* more).
C21_RoundTrip ==
    [][\A n \in Nodes :
         \A email \in MeshEmails(now) :
            LET packet == TextPacket(IntVal(NodeC),
                                     JsonOf(encode_email_to_lora(email)))
                d == decode_lora_packet(packet)
                Same(r, hops) ==
                    /\ r.message_id = email.message_id
                    /\ r.to_node_id = email.to_node_id
                    /\ r.from_node_id = email.from_node_id
                    /\ r.subject = email.subject
                    /\ r.body = email.body
                    /\ r.timestamp = email.timestamp
                    /\ r.hops = hops
            IN  (running[n] /\ ReceiveRaw(n, packet, net))
                => /\ d.ok
                   /\ d.data.i = StrVal(email.message_id)
                   /\ d.data.to = IntVal(email.to_node_id)
                   /\ d.data.fm = IntVal(email.from_node_id)
                   /\ d.data.s = StrVal(email.subject)
                   /\ d.data.b = StrVal(email.body)
                   /\ d.data.ts = IntVal(email.timestamp)
                   /\ d.data.hp = IntVal(email.hops)
                   /\ (email.to_node_id = n /\ ~HasRow(inbox[n], email.message_id))
                      => \E r \in inbox'[n] : Same(r, email.hops)
                   /\ (email.to_node_id # n /\ ~HasRow(outbox[n], email.message_id))
                      => \E r \in outbox'[n] : Same(r, email.hops + 1)]_vars

\* an email with a subject, sent by NodeB at OldTime, is in NodeA's inbox
\* as it was encoded
C21_Witness ==
    /\ res = "inserted"
    /\ tx # NoFrame
    /\ \E r \in inbox[NodeA] :
          /\ r.message_id \in Uuids(NodeB)
          /\ r.from_node_id = NodeB
          /\ r.subject = "re"
          /\ r.body = "hi"
          /\ r.timestamp = OldTime
          /\ r.hops = 1

\* C22: a packet whose JSON object lacks type or id, has a type other than
\* eml and ack, lacks a required key of its type, or has a to, fm, ts or hp
\* that is not an integer or an af that is not a string, is not decodable,
\* and the receive handler then writes no row, transmits nothing and writes
\* nothing to the companion; so is a packet that carries no JSON object.
C22_StrictDecode ==
    [][\A n \in Nodes :
         \A packet \in RawPackets(now) :
            LET data == packet.text.data
                eml == data.t = StrVal(MSG_TYPE_EMAIL)
                ack == data.t = StrVal(MSG_TYPE_ACK)
            IN  ( /\ running[n]
                  /\ \/ packet.text.json # "object"
                     \/ data.t.kind = "absent"
                     \/ data.i.kind = "absent"
                     \/ ~eml /\ ~ack
                     \/ eml /\ \E k \in {"to", "fm", "b", "ts", "hp"} :
                                  data[k].kind = "absent"
                     \/ ack /\ \E k \in {"af", "to", "fm", "ts", "hp"} :
                                  data[k].kind = "absent"
                     \/ \E k \in {"to", "fm", "ts", "hp"} : data[k].kind # "int"
                     \/ ack /\ data.af.kind # "str"
                  /\ ReceiveRaw(n, packet, net) )
                => /\ ~decode_lora_packet(packet).ok
                   /\ res' = "not_decodable"
                   /\ tx' = NoFrame
                   /\ out' = <<>>
                   /\ UNCHANGED <<inbox, outbox, net>>]_vars

\* C23: in every state a reader of the outbox can observe, a pending row
\* has retry_count 0 and no last attempt time, a sent row has retry_count
\* at least 1 and a last attempt time, and an acked row has acked_by set.
C23_NoHalfAppliedTransition ==
    \A n \in Nodes :
       \A r \in outbox[n] :
          /\ r.status = STATUS_PENDING
             => r.retry_count = 0 /\ r.last_attempt_time = 0
          /\ r.status = STATUS_SENT
             => r.retry_count >= 1 /\ r.last_attempt_time > 0
          /\ r.status = STATUS_ACKED => r.acked_by_node_id # None

\* the queue processor holds a batch read from an outbox in which one row
\* is sent and another acked
C23_Witness ==
    /\ pc[NodeA] = "batch"
    /\ batch[NodeA] # <<>>
    /\ \E r \in outbox[NodeA] : r.status = STATUS_SENT /\ r.retry_count >= 1
    /\ \E r \in outbox[NodeA] : r.status = STATUS_ACKED

\* C24: once stop() has cleared running, the queue processor thread and the
\* companion listener thread end, and stop() closes the companion port and
\* the store and returns; stop() can always go past its joins, whether or
\* not a worker thread has ended.
C24_ShutdownTerminates ==
    /\ \A n \in Nodes :
          (stopping[n] = "join")
          ~> ( /\ pc[n] = "exited"
               /\ listener[n] = "exited"
               /\ stopping[n] = "done"
               /\ ~companion_open[n]
               /\ ~db[n] )
    /\ [](\A n \in Nodes : stopping[n] = "join" => ENABLED JoinThreads(n))

\* stop() has returned on a relay with mail in its outbox, and both worker
\* threads have ended
C24_Witness ==
    /\ stopping[NodeA] = "done"
    /\ ~running[NodeA]
    /\ pc[NodeA] = "exited"
    /\ listener[NodeA] = "exited"
    /\ outbox[NodeA] # {}

\* the steps of the queue processor loop
C25_QPStep(n) ==
    QPSelect(n) \/ QPExpire(n) \/ QPProcess(n) \/ QPRecord(n)

\* C25: a fault of a store operation never ends the queue processor thread
\* and never leaves the receive handler as an exception; after the fault
\* the queue processor of a running relay has a next step to take and the
\* relay handles the next packet.
C25_StoreFaultContained ==
    \A n \in Nodes :
       /\ pc[n] # "dead"
       /\ res # "escaped"
       /\ (res \in {"store_fault", "inbox_fault"} /\ running[n])
          => (ENABLED C25_QPStep(n) /\ ENABLED Inject(n))

\* an insert of the receive path has failed on a relay that holds mail
C25_Witness ==
    /\ res = "store_fault"
    /\ out = <<>>
    /\ pc[NodeA] = "batch"
    /\ inbox[NodeA] # {}

\* C26: no step removes or changes a row of the inbox, and no step removes
\* a row of the outbox or changes its message id, destination, sender,
\* creation time or hop count.
C26_RowsKept ==
    [][\A n \in Nodes :
          /\ \A r \in inbox[n] : r \in inbox'[n]
          /\ \A r \in outbox[n] :
                \E q \in outbox'[n] :
                   /\ q.message_id = r.message_id
                   /\ q.to_node_id = r.to_node_id
                   /\ q.from_node_id = r.from_node_id
                   /\ q.created_time = r.created_time
                   /\ q.hops = r.hops]_vars

\* a relay holding received mail and a terminal outbox row at a later time
C26_Witness ==
    /\ inbox[NodeA] # {}
    /\ \E r \in outbox[NodeA] :
          /\ r.status \in {STATUS_FAILED, STATUS_ACKED}
          /\ r.last_attempt_time < now

\* C27: the step of the queue processor that follows an accepted
\* transmission sets the row of the transmitted email to sent, its
\* last_attempt_time to the current time and its retry_count one higher,
\* and leaves every other row alone; recording an attempt for an id the
\* outbox does not hold leaves the outbox as it is.
C27_AttemptRecorded ==
    [][\A n \in Nodes :
          /\ \A id \in MsgIds :
                ~HasRow(outbox[n], id)
                => update_outbox_after_send_attempt(outbox[n], id, now)
                   = outbox[n]
          /\ (pc[n] = "record" /\ pc'[n] # "record")
             => LET id == Head(batch[n]).message_id
                IN /\ HasRow(outbox[n], id)
                   /\ HasRow(outbox'[n], id)
                   /\ Row(outbox'[n], id).status = STATUS_SENT
                   /\ Row(outbox'[n], id).last_attempt_time = now
                   /\ Row(outbox'[n], id).retry_count
                      = Row(outbox[n], id).retry_count + 1
                   /\ \A r \in outbox[n] :
                         r.message_id # id => r \in outbox'[n]
                   /\ Cardinality(outbox'[n]) = Cardinality(outbox[n])]_vars

\* a second attempt has just been recorded while another id has no row
C27_Witness ==
    /\ pc[NodeA] = "idle"
    /\ \E r \in outbox[NodeA] :
          /\ r.status = STATUS_SENT
          /\ r.last_attempt_time = now
          /\ r.retry_count = 2
    /\ \E id \in MsgIds : ~HasRow(outbox[NodeA], id)

\* C28: a transmission that fails in the transport leaves the outbox as it
\* was, so the row keeps its status, retry_count and last_attempt_time and
\* is not failed by the attempt; if the row is still as the scan read it,
\* every scan made afterwards, now or a retry interval later, returns it
\* again unless it has expired by then.
C28_TransportFailureLeavesRow ==
    [][\A n \in Nodes :
          (res' = "mesh_error" /\ pc[n] = "batch" /\ batch'[n] # batch[n])
          => LET email == Head(batch[n])
                 id == email.message_id
             IN /\ outbox'[n] = outbox[n]
                /\ HasRow(outbox'[n], id)
                /\ (Row(outbox'[n], id).status = STATUS_FAILED
                    => Row(outbox[n], id).status = STATUS_FAILED)
                /\ (/\ Row(outbox[n], id).status = email.status
                    /\ Row(outbox[n], id).last_attempt_time
                       = email.last_attempt_time)
                   => \A t \in {now', now' + MESSAGE_RETRY_INTERVAL} :
                         ~IsExpired(Row(outbox'[n], id), t)
                         => \A rows \in SelectDue(outbox'[n], t) :
                               id \in IdsOf(EmailsToSend(rows, t))]_vars

\* a retry of a sent row has just failed in the transport
C28_Witness ==
    /\ res = "mesh_error"
    /\ \E r \in outbox[NodeA] :
          /\ r.message_id = tx.i
          /\ r.status = STATUS_SENT
          /\ r.retry_count = 1
          /\ r.last_attempt_time < now

\* the queue processor of n attempts the transmission of message_id in
\* this step
C29_Attempts(n, message_id) ==
    /\ pc[n] = "batch"
    /\ res' \in {"accepted", "mesh_error"}
    /\ batch'[n] # batch[n] \/ pc'[n] = "record"
    /\ Head(batch[n]).message_id = message_id

\* C29: when the encoder fails on an outbox row, the step marks the row
\* failed, hands nothing to the transport and leaves retry_count and every
\* other row as they were; and a failed row is never in a batch, never
\* attempted, and never pending or sent again.
C29_EncodeFailureIsFinal ==
    [][\A n \in Nodes :
          /\ (res' = "encode_error" /\ pc[n] = "batch"
                                    /\ batch'[n] # batch[n])
             => LET id == Head(batch[n]).message_id
                IN /\ HasRow(outbox[n], id)
                   /\ Row(outbox'[n], id).status = STATUS_FAILED
                   /\ Row(outbox'[n], id).retry_count
                      = Row(outbox[n], id).retry_count
                   /\ tx' = NoFrame
                   /\ net' = net
                   /\ id \notin IdsOf(batch'[n])
                   /\ \A r \in outbox[n] :
                         r.message_id # id => r \in outbox'[n]
          /\ \A r \in outbox[n] :
                r.status = STATUS_FAILED
                => /\ Row(outbox'[n], r.message_id).status
                      \in {STATUS_FAILED, STATUS_ACKED}
                   /\ Row(outbox'[n], r.message_id).retry_count
                      = r.retry_count
                   /\ r.message_id \notin IdsOf(batch'[n])
                   /\ ~C29_Attempts(n, r.message_id)]_vars

\* the encoder has just failed on the retry of a sent row
C29_Witness ==
    /\ res = "encode_error"
    /\ \E r \in outbox[NodeA] :
          /\ r.status = STATUS_FAILED
          /\ r.last_attempt_time = now
          /\ r.retry_count = 1

C31_DestinationAndBudget ==
    [][\A n \in Nodes :
          (pc[n] = "batch" /\ res' \in {"accepted", "mesh_error"}
                           /\ (pc'[n] = "record" \/ batch'[n] # batch[n]))
          => LET id == Head(batch[n]).message_id
             IN /\ HasRow(outbox[n], id)
                /\ call' # NoCall
                /\ call'.destinationId = Row(outbox[n], id).to_node_id
                /\ call'.hopLimit
                   = MESSAGE_HOP_LIMIT - Row(outbox[n], id).hops]_vars

\* a forwarded row has been transmitted with less than the full hop limit
C31_Witness ==
    /\ res = "accepted"
    /\ pc[NodeA] = "record"
    /\ tx.t = MSG_TYPE_EMAIL
    /\ call.destinationId = tx.to
    /\ call.destinationId # NodeA
    /\ call.hopLimit < MESSAGE_HOP_LIMIT

\* C33: the queue processor never attempts the transmission of a message
\* whose outbox row is acked or failed at that moment.
C33_NoSendOfTerminalRow ==
    [][\A n \in Nodes :
          (pc[n] = "batch" /\ res' \in {"accepted", "mesh_error"}
                           /\ (pc'[n] = "record" \/ batch'[n] # batch[n]))
          => Row(outbox[n], Head(batch[n]).message_id).status
             \notin {STATUS_ACKED, STATUS_FAILED}]_vars

\* C34: an outbox row that is acked has the node it was addressed to as
\* its acked_by_node_id.
C34_AckedByDestination ==
    \A n \in Nodes : \A r \in outbox[n] :
       r.status = STATUS_ACKED => r.acked_by_node_id = r.to_node_id

\* C35: an outbox row that is acked has a retry_count of at least one.
C35_AckedAfterAttempt ==
    \A n \in Nodes : \A r \in outbox[n] :
       r.status = STATUS_ACKED => r.retry_count >= 1

\* C36: a status_update frame with status acked is written to the companion
\* line only for an id whose outbox row exists and is acked after the step.
C36_AckedNoticeHasRow ==
    [][\A k \in 1..Len(out') :
          (/\ out'[k].resp = RESP_STATUS_UPDATE
           /\ out'[k].data.status = STATUS_ACKED)
          => \E n \in Nodes :
                /\ HasRow(outbox'[n], out'[k].data.message_id)
                /\ Row(outbox'[n], out'[k].data.message_id).status
                   = STATUS_ACKED]_vars

\* C38: every outbox row has hops between 0 and MESSAGE_HOP_LIMIT, and
\* every hop limit the queue processor passes to the transport lies
\* between 1 and MESSAGE_HOP_LIMIT.
C38_HopsWithinLimit ==
    /\ \A n \in Nodes : \A r \in outbox[n] :
          0 <= r.hops /\ r.hops <= MESSAGE_HOP_LIMIT
    /\ (call # NoCall /\ tx.t = MSG_TYPE_EMAIL)
       => (1 <= call.hopLimit /\ call.hopLimit <= MESSAGE_HOP_LIMIT)

\* C39: when the inbox insert of an eml frame addressed to the local node
\* raises a storage fault, the step hands no ack to the transport, writes
\* no notification, leaves the inbox as it was and ends inside the
\* receive handler; the relay still runs with its store open, and the same
\* frame received again would be stored.
C39_InboxFaultNoAck ==
    [][\A n \in Nodes :
          res' = "inbox_fault"
          => \A f \in EnvFrames(now) :
                (/\ f.t = MSG_TYPE_EMAIL
                 /\ f.to = n
                 /\ ReceiveStoreFaultOn(n, f))
                => /\ tx' = NoFrame
                   /\ call' = NoCall
                   /\ net' = net
                   /\ out' = <<>>
                   /\ inbox' = inbox
                   /\ outbox' = outbox
                   /\ running'[n] /\ db'[n]
                   /\ ~HasRow(inbox[n], f.i)
                      => HasRow(add_incoming_email(
                                    inbox'[n],
                                    Email(f.i, f.to, f.fm, f.s, f.b, f.ts,
                                          f.hp, now')),
                                f.i)]_vars

\* the inbox insert of a first email has just failed
C39_Witness ==
    /\ res = "inbox_fault"
    /\ tx = NoFrame
    /\ out = <<>>
    /\ inbox[NodeA] = {}
    /\ running[NodeA]

\* C37: while the queue processor runs and time passes, every outbox row
\* reaches acked or failed; stated for the rows created before the clock's
\* first advance, which the last advance of the model leaves two expiry
\* windows behind.
C37_RowsReachTerminal ==
    \A n \in Nodes : \A id \in MsgIds :
       (HasRow(outbox[n], id) /\ ticks = 0)
       ~> (/\ HasRow(outbox[n], id)
           /\ Row(outbox[n], id).status \in {STATUS_ACKED, STATUS_FAILED})

\* a row that was transmitted and never acked has been failed by expiry
C37_Witness ==
    /\ ticks = MaxTicks
    /\ \E r \in outbox[NodeA] :
          /\ r.created_time = StartTime
          /\ r.status = STATUS_FAILED
          /\ r.retry_count >= 1
          /\ r.acked_by_node_id = None

\* C32: what the companion line carries is a sequence of whole lines: the
\* first part of a line is followed at once by the rest of the same line,
\* and the rest of a line follows at once its first part.
C32_LinesContiguous ==
    \A n \in Nodes :
       LET w == port[n].written
       IN \A k \in 1..Len(w) :
             /\ (w[k].part < w[k].of /\ k < Len(w))
                => /\ w[k + 1].by = w[k].by
                   /\ w[k + 1].line = w[k].line
                   /\ w[k + 1].part = w[k].part + 1
             /\ w[k].part > 1
                => /\ k > 1
                   /\ w[k - 1].by = w[k].by
                   /\ w[k - 1].part = w[k].part - 1

\* C40: at any time at most one queue processor loop is active for a relay,
\* under any sequence of start() and stop() calls: the thread pc[n] follows
\* and the threads counted in extra[n] are never more than one together
C40_OneQueueProcessor ==
    \A n \in Nodes :
       (IF pc[n] = "exited" THEN 0 ELSE 1) + extra[n] <= 1

====
